---------------------------- MODULE Spec2Model ----------------------------
(***************************************************************************)
(* Chart-pattern detection engine of the trading bot                        *)
(* (user_data/strategies/indicators/chart_patterns.py), with the market     *)
(* structure indicators (smc_indicators.py), the sentiment fetch            *)
(* (data_enhancement.py), the feature flags (feature_registry.py,           *)
(* FreqAIStrategy.py) and the ablation script (scripts/feature_ablation.py).*)
(*                                                                          *)
(* The OHLC table grows one candle at a time; after every candle the host   *)
(* calls ChartPatterns.add_all_patterns on the whole table, which rewrites  *)
(* every derived column.  Rows keep their Python positions 0..n-1.          *)
(* Prices are integers; every float of the code is the exact rational it    *)
(* stands for, kept as a reduced fraction <<num, den>> with den > 0.        *)
(***************************************************************************)
EXTENDS Integers, Sequences, FiniteSets, TLC

VARIABLES
    bars,   \* the OHLC(V) table: row position -> [high, low, close, ...]
    df,     \* the derived columns of the table: row position -> (column -> value)
    plan,   \* candles of the current price leg that have not arrived yet
    legs,   \* number of price legs fed so far
    sig,    \* a row of per-pattern columns handed to summarize_patterns
    score,  \* the score columns summarize_patterns computes for sig
    edits,  \* number of changes made to sig so far
    frame,      \* the DataFrame object a pipeline works on, all columns
    ran,        \* the steps of the pipeline that have run on frame
    features,   \* the features dict add_all_indicators collects
    raised,     \* the exception a call ended with, "none" if it returned
    fg_cache,   \* DataEnhancement._fg_cache
    now,        \* the reading of datetime.now(), in minutes
    requests,   \* number of HTTP requests sent to the sentiment API
    response,   \* the HTTP exchange of the last call, kind "none" if it sent none
    fg_result,  \* what the last get_fear_greed_index call returned
    config_json,    \* content of CONFIG_PATH (user_data/config.json)
    backup_json,    \* content of BACKUP_PATH, <<>> while the file is absent
    ablation,       \* how the last command of feature_ablation.py ended
    config,     \* the "freqai" section of the configuration being loaded
    enabled,    \* FeatureFlags._enabled_features
    stage,      \* how far the host got: load, features, targets
    warnings    \* the conflicts FeatureFlags._validate_conflicts logged

patternVars == <<bars, df, plan, legs, sig, score, edits>>
pipelineVars == <<frame, ran, features>>
sentimentVars == <<fg_cache, now, requests, response, fg_result>>
ablationVars == <<config_json, backup_json, ablation>>
configVars == <<config, enabled, stage, warnings>>

vars == <<patternVars, pipelineVars, raised, sentimentVars, ablationVars,
          configVars>>

\* Python's None where a number is expected
None == -1

\* nothing has been handed to the step-by-step pipeline
NoPipeline == frame = <<>> /\ ran = {} /\ features = <<>> /\ raised = "none"

\* the sentiment cache as the class is loaded, no call made
NoSentiment ==
    /\ fg_cache = [value |-> None, classification |-> "None", timestamp |-> None]
    /\ now = 0
    /\ requests = 0
    /\ response = [kind |-> "none"]
    /\ fg_result = fg_cache

\* the ablation script has not been started
NoAblation == config_json = <<>> /\ backup_json = <<>> /\ ablation = "idle"

\* no configuration is being loaded
NoConfig == config = <<>> /\ enabled = <<>> /\ stage = "idle" /\ warnings = {}

-----------------------------------------------------------------------------
(* Exact rational arithmetic standing for the code's float arithmetic.      *)

Abs(x) == IF x < 0 THEN -x ELSE x

RECURSIVE Gcd(_, _)
Gcd(a, b) == IF b = 0 THEN a ELSE Gcd(b, a % b)

\* n / d as a reduced fraction, d # 0
Frac(n, d) ==
    LET s == IF d < 0 THEN -1 ELSE 1
        g == Gcd(Abs(n), Abs(d))
    IN  <<(s * n) \div g, (s * d) \div g>>

Zero == <<0, 1>>
One == <<1, 1>>

\* comparisons and sums cross-cancel the denominators first, comparisons of
\* values of different sign and sums and products with 0 are taken directly,
\* and a product of reduced fractions is reduced once cross-cancelled (same
\* values, smaller intermediates)
RLt(x, y) ==
    IF x[2] = y[2] THEN x[1] < y[1]
    ELSE IF x[1] <= 0 /\ y[1] >= 0 THEN x[1] < 0 \/ y[1] > 0
    ELSE IF x[1] >= 0 /\ y[1] <= 0 THEN FALSE
    ELSE LET g == Gcd(x[2], y[2])
         IN  x[1] * (y[2] \div g) < y[1] * (x[2] \div g)
RLe(x, y) == ~ RLt(y, x)
RGt(x, y) == RLt(y, x)
RMin(x, y) == IF RLe(x, y) THEN x ELSE y
RMax(x, y) == IF RLe(y, x) THEN x ELSE y
RAbs(x) == <<Abs(x[1]), x[2]>>
RNeg(x) == <<-x[1], x[2]>>
RAdd(x, y) ==
    IF x[1] = 0 THEN y
    ELSE IF y[1] = 0 THEN x
    ELSE LET g == Gcd(x[2], y[2])
         IN  Frac(x[1] * (y[2] \div g) + y[1] * (x[2] \div g),
                  (x[2] \div g) * y[2])
RSub(x, y) == RAdd(x, RNeg(y))
RMul(x, y) ==
    IF x[1] = 0 \/ y[1] = 0 THEN Zero
    ELSE LET g1 == Gcd(Abs(x[1]), y[2])
             g2 == Gcd(Abs(y[1]), x[2])
         IN  <<(x[1] \div g1) * (y[1] \div g2),
               (x[2] \div g2) * (y[2] \div g1)>>
\* x / y, y # 0
RDiv(x, y) == RMul(x, IF y[1] < 0 THEN <<-y[2], -y[1]>> ELSE <<y[2], y[1]>>)
RInt(k) == <<k, 1>>

-----------------------------------------------------------------------------
(* Swing extraction                                                         *)

order == 5

Len0(t) == Cardinality(DOMAIN t)

\* numpy take(..., mode='clip'): positions beyond an edge read the edge
Clip(i, n) == IF i < 0 THEN 0 ELSE IF i > n - 1 THEN n - 1 ELSE i

\* scipy.signal.argrelextrema(highs, np.greater_equal, order) holds idx
IsRelMax(highs, n, i) ==
    \A s \in 1..order :
        /\ highs[i] >= highs[Clip(i + s, n)]
        /\ highs[i] >= highs[Clip(i - s, n)]

\* scipy.signal.argrelextrema(lows, np.less_equal, order) holds idx
IsRelMin(lows, n, i) ==
    \A s \in 1..order :
        /\ lows[i] <= lows[Clip(i + s, n)]
        /\ lows[i] <= lows[Clip(i - s, n)]

\* find_swing_points without the shift: the extremum at idx written at row idx
find_swing_points_unshifted(b) ==
    LET n == Len0(b)
        highs == [i \in 0..n-1 |-> b[i].high]
        lows == [i \in 0..n-1 |-> b[i].low]
    IN  [swing_high |-> [r \in 0..n-1 |->
                            IF IsRelMax(highs, n, r) THEN highs[r] ELSE 0],
         swing_low |-> [r \in 0..n-1 |->
                            IF IsRelMin(lows, n, r) THEN lows[r] ELSE 0]]

\* The swing_high / swing_low columns: the extremum at idx is written at row
\* idx + order when that row exists, every other row stays 0.
find_swing_points(b) ==
    LET n == Len0(b)
        highs == [i \in 0..n-1 |-> b[i].high]
        lows == [i \in 0..n-1 |-> b[i].low]
    IN  [swing_high |-> [r \in 0..n-1 |->
                            IF r - order >= 0 /\ IsRelMax(highs, n, r - order)
                            THEN highs[r - order] ELSE 0],
         swing_low |-> [r \in 0..n-1 |->
                            IF r - order >= 0 /\ IsRelMin(lows, n, r - order)
                            THEN lows[r - order] ELSE 0]]

\* default of get_recent_swings' lookback parameter
lookback == 100

RECURSIVE SwingList(_, _, _, _)
\* the (i, price) pairs, in row order, of the rows start+lo .. start+hi whose
\* column value is > 0 (i counts from 0 at row start); built by halves
SwingList(col, start, lo, hi) ==
    IF lo > hi THEN <<>>
    ELSE IF lo = hi
    THEN (IF col[start + lo] > 0 THEN << <<lo, col[start + lo]>> >> ELSE <<>>)
    ELSE LET mid == (lo + hi) \div 2
         IN  SwingList(col, start, lo, mid) \o SwingList(col, start, mid + 1, hi)

\* dataframe.tail(lookback) enumerated from 0: (swing_highs, swing_lows)
get_recent_swings(sw, n) ==
    LET start == IF n > lookback THEN n - lookback ELSE 0
        m == n - start
    IN  [swing_highs |-> SwingList(sw.swing_high, start, 0, m - 1),
         swing_lows |-> SwingList(sw.swing_low, start, 0, m - 1)]

-----------------------------------------------------------------------------
(* Double top / double bottom                                               *)

\* default of the tolerance parameter
tolerance == Frac(2, 100)

\* the swings of list l whose index lies strictly between lo and hi
Between(l, lo, hi) == SelectSeq(l, LAMBDA e : lo < e[1] /\ e[1] < hi)

\* the first swing of the list, whatever its price
MinByPrice_first(l) == l[1]

\* Python min(l, key=price) / max(l, key=price): the first extreme element
MinByPrice(l) ==
    l[CHOOSE k \in 1..Len(l) :
        /\ \A j \in 1..Len(l) : l[k][2] <= l[j][2]
        /\ \A j \in 1..(k - 1) : l[j][2] > l[k][2]]

MaxByPrice(l) ==
    l[CHOOSE k \in 1..Len(l) :
        /\ \A j \in 1..Len(l) : l[k][2] >= l[j][2]
        /\ \A j \in 1..(k - 1) : l[j][2] < l[k][2]]

ZeroCol(n) == [r \in 0..n-1 |-> Zero]

\* the pair is skipped already when price_diff reaches the tolerance
PeaksMatch_strict(p1, p2) == RLt(Frac(Abs(p1 - p2), p1), tolerance)

\* 2 peaks must be close: the pair is skipped when price_diff > tolerance
PeaksMatch(p1, p2) == ~ RGt(Frac(Abs(p1 - p2), p1), tolerance)

\* confidence of a double top whose first peak is p1 and neckline is nk
TopConfidence(p1, nk) == RMin(One, RMul(Frac(p1 - nk, p1), RInt(10)))

\* the relative index taken as the row itself
ActualIdx_rel(n, rel_idx) == rel_idx

\* Convert relative to absolute: len(dataframe) - 100 + idx
ActualIdx(n, rel_idx) == n - 100 + rel_idx

\* one iteration of detect_double_top's loop, for the pair (i, i+1) of the list
DoubleTopStep(i, sh, sl, b, n, cols) ==
    LET peak1 == sh[i]
        peak2 == sh[i + 1]
        middle_lows == Between(sl, peak1[1], peak2[1])
        neckline == MinByPrice(middle_lows)
        confidence == TopConfidence(peak1[2], neckline[2])
        actual_idx == ActualIdx(n, peak2[1])
    IN  IF ~ PeaksMatch(peak1[2], peak2[2]) THEN cols
        ELSE IF middle_lows = <<>> THEN cols
        ELSE IF peak2[1] < n /\ 0 <= actual_idx /\ actual_idx < n
        THEN [double_top |->
                  [cols.double_top EXCEPT ![actual_idx] = confidence],
              double_top_neckline |->
                  [cols.double_top_neckline EXCEPT ![actual_idx] =
                      Frac(neckline[2], b[actual_idx].close)]]
        ELSE cols

RECURSIVE DoubleTopLoop(_, _, _, _, _, _, _)
\* the iterations lo .. hi of the loop, in order, starting from cols (the
\* first half is worked out before the second half starts)
DoubleTopLoop(lo, hi, sh, sl, b, n, cols) ==
    IF lo > hi THEN cols
    ELSE IF lo = hi THEN DoubleTopStep(lo, sh, sl, b, n, cols)
    ELSE LET mid == (lo + hi) \div 2
             left == DoubleTopLoop(lo, mid, sh, sl, b, n, cols)
         IN  IF DOMAIN left = {} THEN left
             ELSE DoubleTopLoop(mid + 1, hi, sh, sl, b, n, left)

detect_double_top(b, sw) ==
    LET n == Len0(b)
        zero == [double_top |-> ZeroCol(n), double_top_neckline |-> ZeroCol(n)]
        rs == get_recent_swings(sw, n)
    IN  IF n < 50 THEN zero
        ELSE IF Len(rs.swing_highs) < 2 \/ Len(rs.swing_lows) < 1 THEN zero
        ELSE DoubleTopLoop(1, Len(rs.swing_highs) - 1,
                           rs.swing_highs, rs.swing_lows, b, n, zero)

\* confidence of a double bottom whose first bottom is b1 and neckline is nk
BottomConfidence(b1, nk) == RMin(One, RMul(Frac(nk - b1, b1), RInt(10)))

\* one iteration of detect_double_bottom's loop, for the pair (i, i+1)
DoubleBottomStep(i, sh, sl, b, n, cols) ==
    LET bottom1 == sl[i]
        bottom2 == sl[i + 1]
        middle_highs == Between(sh, bottom1[1], bottom2[1])
        neckline == MaxByPrice(middle_highs)
        confidence == BottomConfidence(bottom1[2], neckline[2])
        actual_idx == ActualIdx(n, bottom2[1])
    IN  IF ~ PeaksMatch(bottom1[2], bottom2[2]) THEN cols
        ELSE IF middle_highs = <<>> THEN cols
        ELSE IF bottom2[1] < n /\ 0 <= actual_idx /\ actual_idx < n
        THEN [double_bottom |->
                  [cols.double_bottom EXCEPT ![actual_idx] = confidence],
              double_bottom_neckline |->
                  [cols.double_bottom_neckline EXCEPT ![actual_idx] =
                      Frac(neckline[2], b[actual_idx].close)]]
        ELSE cols

RECURSIVE DoubleBottomLoop(_, _, _, _, _, _, _)
DoubleBottomLoop(lo, hi, sh, sl, b, n, cols) ==
    IF lo > hi THEN cols
    ELSE IF lo = hi THEN DoubleBottomStep(lo, sh, sl, b, n, cols)
    ELSE LET mid == (lo + hi) \div 2
             left == DoubleBottomLoop(lo, mid, sh, sl, b, n, cols)
         IN  IF DOMAIN left = {} THEN left
             ELSE DoubleBottomLoop(mid + 1, hi, sh, sl, b, n, left)

detect_double_bottom(b, sw) ==
    LET n == Len0(b)
        zero == [double_bottom |-> ZeroCol(n),
                 double_bottom_neckline |-> ZeroCol(n)]
        rs == get_recent_swings(sw, n)
    IN  IF n < 50 THEN zero
        ELSE IF Len(rs.swing_lows) < 2 \/ Len(rs.swing_highs) < 1 THEN zero
        ELSE DoubleBottomLoop(1, Len(rs.swing_lows) - 1,
                              rs.swing_highs, rs.swing_lows, b, n, zero)

-----------------------------------------------------------------------------
(* Head and shoulders                                                       *)

\* the same with the left neckline low standing for the neckline average
HeadConfidence_left(head, left, right) ==
    RMin(One, RMul(RDiv(RSub(RInt(head), RInt(left)), RInt(head)), RInt(10)))

\* confidence of a head-and-shoulders: head price, the two neckline lows
HeadConfidence(head, left, right) ==
    LET neckline_avg == Frac(left + right, 2)
        head_height == RSub(RInt(head), neckline_avg)
        pattern_quality == RDiv(head_height, RInt(head))
    IN  RMin(One, RMul(pattern_quality, RInt(10)))

\* confidence of the inverse pattern: head price, the two neckline highs
HeadInvConfidence(head, left, right) ==
    LET neckline_avg == Frac(left + right, 2)
        pattern_quality == RDiv(RSub(neckline_avg, RInt(head)), neckline_avg)
    IN  RMin(One, RMul(pattern_quality, RInt(10)))

\* one iteration of the LS - H - RS loop, for the triple (i, i+1, i+2)
HeadShouldersStep(i, sh, sl, n, col) ==
    LET ls == sh[i]
        head == sh[i + 1]
        rs == sh[i + 2]
        left_lows == Between(sl, ls[1], head[1])
        right_lows == Between(sl, head[1], rs[1])
        confidence == HeadConfidence(head[2], MinByPrice(left_lows)[2],
                                     MinByPrice(right_lows)[2])
        actual_idx == ActualIdx(n, rs[1])
    IN  IF ~ (head[2] > ls[2] /\ head[2] > rs[2]) THEN col
        ELSE IF ~ PeaksMatch(ls[2], rs[2]) THEN col
        ELSE IF left_lows = <<>> \/ right_lows = <<>> THEN col
        ELSE IF rs[1] < n /\ 0 <= actual_idx /\ actual_idx < n
        THEN [col EXCEPT ![actual_idx] = confidence]
        ELSE col

RECURSIVE HeadShouldersLoop(_, _, _, _, _, _)
HeadShouldersLoop(lo, hi, sh, sl, n, col) ==
    IF lo > hi THEN col
    ELSE IF lo = hi THEN HeadShouldersStep(lo, sh, sl, n, col)
    ELSE LET mid == (lo + hi) \div 2
             left == HeadShouldersLoop(lo, mid, sh, sl, n, col)
         IN  IF DOMAIN left = {} THEN left
             ELSE HeadShouldersLoop(mid + 1, hi, sh, sl, n, left)

\* one iteration of the inverse loop, for the triple (i, i+1, i+2) of lows
HeadShouldersInvStep(i, sh, sl, n, col) ==
    LET ls == sl[i]
        head == sl[i + 1]
        rs == sl[i + 2]
        left_highs == Between(sh, ls[1], head[1])
        right_highs == Between(sh, head[1], rs[1])
        confidence == HeadInvConfidence(head[2], MaxByPrice(left_highs)[2],
                                        MaxByPrice(right_highs)[2])
        actual_idx == ActualIdx(n, rs[1])
    IN  IF ~ (head[2] < ls[2] /\ head[2] < rs[2]) THEN col
        ELSE IF ~ PeaksMatch(ls[2], rs[2]) THEN col
        ELSE IF left_highs = <<>> \/ right_highs = <<>> THEN col
        ELSE IF rs[1] < n /\ 0 <= actual_idx /\ actual_idx < n
        THEN [col EXCEPT ![actual_idx] = confidence]
        ELSE col

RECURSIVE HeadShouldersInvLoop(_, _, _, _, _, _)
HeadShouldersInvLoop(lo, hi, sh, sl, n, col) ==
    IF lo > hi THEN col
    ELSE IF lo = hi THEN HeadShouldersInvStep(lo, sh, sl, n, col)
    ELSE LET mid == (lo + hi) \div 2
             left == HeadShouldersInvLoop(lo, mid, sh, sl, n, col)
         IN  IF DOMAIN left = {} THEN left
             ELSE HeadShouldersInvLoop(mid + 1, hi, sh, sl, n, left)

detect_head_and_shoulders(b, sw) ==
    LET n == Len0(b)
        zero == [head_shoulders |-> ZeroCol(n), head_shoulders_inv |-> ZeroCol(n)]
        rs == get_recent_swings(sw, n)
        sh == rs.swing_highs
        sl == rs.swing_lows
    IN  IF n < 100 THEN zero
        ELSE IF Len(sh) < 3 \/ Len(sl) < 2 THEN zero
        ELSE [head_shoulders |-> HeadShouldersLoop(1, Len(sh) - 2, sh, sl, n, ZeroCol(n)),
              head_shoulders_inv |->
                  IF Len(sl) >= 3 /\ Len(sh) >= 2
                  THEN HeadShouldersInvLoop(1, Len(sl) - 2, sh, sl, n, ZeroCol(n))
                  ELSE ZeroCol(n)]

-----------------------------------------------------------------------------
(* Wedge, triangle and flag: regression and range tests on raw windows      *)

RECURSIVE Totals(_, _, _, _, _, _)
\* the running totals base+y(lo), base+y(lo)+y(lo+1), ..., up to y(hi), for
\* y(r) = b[r][col], or r * b[r][col] when byx
Totals(b, col, byx, lo, hi, base) ==
    IF lo > hi THEN <<>>
    ELSE IF lo = hi
    THEN <<base + (IF byx THEN lo * b[lo][col] ELSE b[lo][col])>>
    ELSE LET mid == (lo + hi) \div 2
             left == Totals(b, col, byx, lo, mid, base)
         IN  left \o Totals(b, col, byx, mid + 1, hi, left[Len(left)])

\* t[k + 1] = y(0) + ... + y(k - 1) for k in 0..n
TotalsFrom0(b, col, byx) == <<0>> \o Totals(b, col, byx, 0, Len0(b) - 1, 0)

\* y(first) + ... + y(first + L - 1), from the running totals t of y
WindowSum(t, first, L) == t[first + L + 1] - t[first + 1]

\* the running totals of a table that the window statistics read
WindowTotals(b) ==
    [high |-> TotalsFrom0(b, "high", FALSE),
     xhigh |-> TotalsFrom0(b, "high", TRUE),
     low |-> TotalsFrom0(b, "low", FALSE),
     xlow |-> TotalsFrom0(b, "low", TRUE),
     close |-> TotalsFrom0(b, "close", FALSE)]

\* np.polyfit(np.arange(L), y, 1)[0] for y = the rows first .. first+L-1:
\* the least-squares slope (L*Sxy - Sx*Sy) / (L*Sxx - Sx*Sx) with x = 0..L-1,
\* which is 6 * (2*Sxy - (L-1)*Sy) / (L * (L*L - 1)); t, tx are the running
\* totals of y[r] and of r * y[r]
PolyfitSlope(t, tx, first, L) ==
    LET sy == WindowSum(t, first, L)
        sxy == WindowSum(tx, first, L) - first * sy
    IN  Frac(6 * (2 * sxy - (L - 1) * sy), L * (L * L - 1))

\* window[col].mean() over the rows first .. first+L-1
Mean(t, first, L) == Frac(WindowSum(t, first, L), L)

\* the normalised slopes (high_slope_pct, low_slope_pct) of the window that
\* ends just before row i: dataframe.iloc[i-L:i]
SlopesPct(wt, i, L) ==
    LET avg_price == Mean(wt.close, i - L, L)
    IN  [high |-> RDiv(PolyfitSlope(wt.high, wt.xhigh, i - L, L), avg_price),
         low |-> RDiv(PolyfitSlope(wt.low, wt.xlow, i - L, L), avg_price)]

\* default of the lookback parameter of detect_wedge / detect_triangle
pattern_lookback == 50

\* the wedge values of row i from the window that ends at row i itself
WedgeRow_incl(wt, i, L) ==
    LET sl == SlopesPct(wt, i + 1, L)
        h == sl.high
        l == sl.low
    IN  [rising_wedge |->
            IF RGt(h, Zero) /\ RGt(l, Zero) /\ RGt(l, h)
            THEN RMin(One, RAbs(RDiv(RSub(l, h), h))) ELSE Zero,
         falling_wedge |->
            IF RLt(h, Zero) /\ RLt(l, Zero) /\ RLt(h, l)
            THEN RMin(One, RAbs(RDiv(RSub(l, h), l))) ELSE Zero]

\* the rising / falling wedge values of row i
WedgeRow(wt, i, L) ==
    LET sl == SlopesPct(wt, i, L)
        h == sl.high
        l == sl.low
    IN  [rising_wedge |->
            IF RGt(h, Zero) /\ RGt(l, Zero) /\ RGt(l, h)
            THEN RMin(One, RAbs(RDiv(RSub(l, h), h))) ELSE Zero,
         falling_wedge |->
            IF RLt(h, Zero) /\ RLt(l, Zero) /\ RLt(h, l)
            THEN RMin(One, RAbs(RDiv(RSub(l, h), l))) ELSE Zero]

\* the wedge columns with one full window as the only length requirement
detect_wedge_nomargin(b, wt) ==
    LET n == Len0(b)
        L == pattern_lookback
    IN  [i \in 0..n-1 |->
            IF n < L \/ i < L
            THEN [rising_wedge |-> Zero, falling_wedge |-> Zero]
            ELSE WedgeRow(wt, i, L)]

\* the wedge columns as one record per row (wt: the table's running totals)
detect_wedge(b, wt) ==
    LET n == Len0(b)
        L == pattern_lookback
    IN  [i \in 0..n-1 |->
            IF n < L + 10 \/ i < L
            THEN [rising_wedge |-> Zero, falling_wedge |-> Zero]
            ELSE WedgeRow(wt, i, L)]

flat_threshold == Frac(1, 10000)
slope_threshold == Frac(5, 10000)

\* the ascending / descending / symmetrical triangle values of row i
TriangleRow(wt, i, L) ==
    LET sl == SlopesPct(wt, i, L)
        h == sl.high
        l == sl.low
        convergence == RDiv(RMin(RAbs(h), RAbs(l)), RMax(RAbs(h), RAbs(l)))
    IN  [ascending_triangle |->
            IF RLt(RAbs(h), flat_threshold) /\ RGt(l, slope_threshold)
            THEN RMin(One, RMul(l, RInt(1000))) ELSE Zero,
         descending_triangle |->
            IF RLt(h, RNeg(slope_threshold)) /\ RLt(RAbs(l), flat_threshold)
            THEN RMin(One, RMul(RAbs(h), RInt(1000))) ELSE Zero,
         symmetrical_triangle |->
            IF RLt(h, Zero) /\ RGt(l, Zero) /\ RGt(convergence, Frac(1, 2))
            THEN convergence ELSE Zero]

\* the triangle columns as one record per row
detect_triangle(b, wt) ==
    LET n == Len0(b)
        L == pattern_lookback
    IN  [i \in 0..n-1 |->
            IF n < L + 10 \/ i < L
            THEN [ascending_triangle |-> Zero, descending_triangle |-> Zero,
                  symmetrical_triangle |-> Zero]
            ELSE TriangleRow(wt, i, L)]

RECURSIVE MaxOver(_, _, _, _)
\* the largest of b[lo][col], ..., b[hi][col]
MaxOver(b, col, lo, hi) ==
    IF lo = hi THEN b[lo][col]
    ELSE LET mid == (lo + hi) \div 2
             x == MaxOver(b, col, lo, mid)
             y == MaxOver(b, col, mid + 1, hi)
         IN  IF x >= y THEN x ELSE y

RECURSIVE MinOver(_, _, _, _)
\* the smallest of b[lo][col], ..., b[hi][col]
MinOver(b, col, lo, hi) ==
    IF lo = hi THEN b[lo][col]
    ELSE LET mid == (lo + hi) \div 2
             x == MinOver(b, col, lo, mid)
             y == MinOver(b, col, mid + 1, hi)
         IN  IF x <= y THEN x ELSE y

\* defaults of detect_flag's parameters
pole_lookback == 20
flag_lookback == 15

\* the bull / bear flag values of row i
FlagRow(b, wt, i) ==
    LET pole_start == i - (pole_lookback + flag_lookback)
        pole_end == i - flag_lookback
        pole_move == Frac(b[pole_end - 1].close - b[pole_start].close,
                          b[pole_start].close)
        flag_move == Frac(b[i - 1].close - b[pole_end].close, b[pole_end].close)
        flag_range == RDiv(RInt(MaxOver(b, "high", pole_end, i - 1)
                                - MinOver(b, "low", pole_end, i - 1)),
                           Mean(wt.close, pole_end, flag_lookback))
    IN  [bull_flag |->
            IF /\ RGt(pole_move, Frac(3, 100))
               /\ RLt(flag_move, Zero)
               /\ RLt(RAbs(flag_move), RMul(pole_move, Frac(5, 10)))
               /\ RLt(flag_range, RMul(pole_move, Frac(3, 10)))
            THEN RMin(One, RMul(pole_move, RInt(10))) ELSE Zero,
         bear_flag |->
            IF /\ RLt(pole_move, Frac(-3, 100))
               /\ RGt(flag_move, Zero)
               /\ RLt(flag_move, RMul(RAbs(pole_move), Frac(5, 10)))
               /\ RLt(flag_range, RMul(RAbs(pole_move), Frac(3, 10)))
            THEN RMin(One, RMul(RAbs(pole_move), RInt(10))) ELSE Zero]

\* the flag columns as one record per row
detect_flag(b, wt) ==
    LET n == Len0(b)
        total_lookback == pole_lookback + flag_lookback
    IN  [i \in 0..n-1 |->
            IF n < total_lookback + 10 \/ i < total_lookback
            THEN [bull_flag |-> Zero, bear_flag |-> Zero]
            ELSE FlagRow(b, wt, i)]

-----------------------------------------------------------------------------
(* Pattern aggregator                                                       *)

\* the weights of the two tables, in tenths (1.0, 1.5, 0.8, 0.7, 0.6)
bullish_patterns ==
    [double_bottom |-> 10, head_shoulders_inv |-> 15, falling_wedge |-> 8,
     ascending_triangle |-> 7, bull_flag |-> 6]

bearish_patterns ==
    [double_top |-> 10, head_shoulders |-> 15, rising_wedge |-> 8,
     descending_triangle |-> 7, bear_flag |-> 6]

\* no clipping at all
Clip01_off(v) == v

\* Series.clip(0, 1)
Clip01(v) == RMax(Zero, RMin(One, v))

\* the contribution of column c to a score: clip(row[c], 0, 1) * weight, and
\* nothing when the table has no such column
Term(row, table, c) ==
    IF c \in DOMAIN row /\ row[c] # Zero
    THEN RMul(Clip01(row[c]), Frac(table[c], 10))
    ELSE Zero

\* max possible = sum of the bullish weights (4.6), used for both scores
max_score ==
    Frac(bullish_patterns.double_bottom + bullish_patterns.head_shoulders_inv
         + bullish_patterns.falling_wedge + bullish_patterns.ascending_triangle
         + bullish_patterns.bull_flag, 10)

\* the net score taken from the raw weighted sums' scale (-4.6 .. 4.6)
NetScore_raw(bull, bear) == RMul(RSub(bull, bear), Frac(46, 10))

\* Net score: pattern_bull_score - pattern_bear_score
NetScore(bull, bear) == RSub(bull, bear)

\* Pattern strength: the row-wise max of the two scores
Strength(bull, bear) == RMax(bull, bear)

\* the threshold taken inclusively
HasPattern_inclusive(strength) ==
    IF ~ RLt(strength, Frac(1, 10)) THEN One ELSE Zero

\* Has active pattern?  (pattern_strength > 0.1).astype(float)
HasPattern(strength) == IF RGt(strength, Frac(1, 10)) THEN One ELSE Zero

\* summarize_patterns on one row: column name -> value (a column the table
\* lacks is absent from row)
summarize_row(row) ==
    LET bull_score ==
            RAdd(RAdd(RAdd(RAdd(Term(row, bullish_patterns, "double_bottom"),
                                Term(row, bullish_patterns, "head_shoulders_inv")),
                           Term(row, bullish_patterns, "falling_wedge")),
                      Term(row, bullish_patterns, "ascending_triangle")),
                 Term(row, bullish_patterns, "bull_flag"))
        bear_score ==
            RAdd(RAdd(RAdd(RAdd(Term(row, bearish_patterns, "double_top"),
                                Term(row, bearish_patterns, "head_shoulders")),
                           Term(row, bearish_patterns, "rising_wedge")),
                      Term(row, bearish_patterns, "descending_triangle")),
                 Term(row, bearish_patterns, "bear_flag"))
        pattern_bull_score == RDiv(bull_score, max_score)
        pattern_bear_score == RDiv(bear_score, max_score)
        pattern_strength == Strength(pattern_bull_score, pattern_bear_score)
    IN  [pattern_bull_score |-> pattern_bull_score,
         pattern_bear_score |-> pattern_bear_score,
         pattern_net_score |-> NetScore(pattern_bull_score, pattern_bear_score),
         pattern_strength |-> pattern_strength,
         has_pattern |-> HasPattern(pattern_strength)]

\* summarize_patterns on a table (row -> record of columns): every row with
\* the five score columns added (or overwritten)
summarize_patterns(table) ==
    [r \in DOMAIN table |-> LET row == table[r] IN summarize_row(row) @@ row]

-----------------------------------------------------------------------------
(* add_all_patterns: the whole pipeline over the table; the result is the   *)
(* table's derived part, one record of columns per row                      *)

add_all_patterns(b) ==
    LET n == Len0(b)
        sw == find_swing_points(b)
        dt == detect_double_top(b, sw)
        db == detect_double_bottom(b, sw)
        hs == detect_head_and_shoulders(b, sw)
        wt == WindowTotals(b)
        we == detect_wedge(b, wt)
        tr == detect_triangle(b, wt)
        fl == detect_flag(b, wt)
    IN  summarize_patterns(
            [r \in 0..n-1 |->
                [swing_high |-> sw.swing_high[r],
                 swing_low |-> sw.swing_low[r],
                 double_top |-> dt.double_top[r],
                 double_top_neckline |-> dt.double_top_neckline[r],
                 double_bottom |-> db.double_bottom[r],
                 double_bottom_neckline |-> db.double_bottom_neckline[r],
                 head_shoulders |-> hs.head_shoulders[r],
                 head_shoulders_inv |-> hs.head_shoulders_inv[r]]
                @@ we[r] @@ tr[r] @@ fl[r]])

-----------------------------------------------------------------------------
(* The candles that arrive                                                  *)

MaxLegs == 3
LegLen == 6

\* a candle whose high is h: low 10 below, close 5 below
Candle(h) == [high |-> h, low |-> h - 10, close |-> h - 5]

\* the k-th candle (1..LegLen) of a leg that ends with its high at target
LegCandle(target, up, k) ==
    Candle(IF up THEN target - 25 * (LegLen - k) ELSE target + 25 * (LegLen - k))

Leg(target, up) == [k \in 1..LegLen |-> LegCandle(target, up, k)]

\* 4284 is exactly 2% above 4200, 4285 just more than 2%
LegKinds ==
    { Leg(4200, TRUE), Leg(4284, TRUE), Leg(4285, TRUE), Leg(4060, FALSE) }

\* history already in the table when the feed starts: a slow decline from
\* 4200, with one long lower wick at bar 30
Decline(len) ==
    [i \in 0..len-1 |->
        IF i = 30
        THEN [high |-> 4200 - 2 * i, low |-> 4050, close |-> 4200 - 2 * i - 5]
        ELSE Candle(4200 - 2 * i)]

\* another history, 100 bars: a wide first candle, a shelf below it, a gap up
\* to a slow climb that tops at bar 12, then a slow decline
GapUp ==
    [i \in 0..99 |->
        CASE i = 0 -> [high |-> 4200, low |-> 4080, close |-> 4100]
          [] i \in 1..5 -> [high |-> 4100, low |-> 4090, close |-> 4095]
          [] i \in 6..12 -> [high |-> 4205 + i, low |-> 4205, close |-> 4206]
          [] i \in 13..17 -> [high |-> 4216, low |-> 4206, close |-> 4210]
          [] OTHER -> Candle(4215 - 2 * (i - 18))]

Histories == {Decline(1), Decline(44), Decline(89), GapUp}

Append0(b, c) ==
    LET n == Len0(b)
    IN  [i \in 0..n |-> IF i < n THEN b[i] ELSE c]

NoSig == [c \in {} |-> Zero]

Init ==
    /\ bars \in Histories
    /\ df = add_all_patterns(bars)
    /\ plan = <<>>
    /\ legs = 0
    /\ sig = NoSig
    /\ score = summarize_row(NoSig)
    /\ edits = 0
    /\ NoPipeline /\ NoSentiment /\ NoAblation /\ NoConfig

\* the market starts a new leg: its candles are then delivered one by one
StartLeg ==
    /\ plan = <<>>
    /\ legs < MaxLegs
    /\ \E l \in LegKinds : plan' = l
    /\ legs' = legs + 1
    /\ UNCHANGED <<bars, df, sig, score, edits>>
    /\ UNCHANGED <<pipelineVars, raised, sentimentVars, ablationVars, configVars>>

\* a candle closes: it is appended and add_all_patterns runs on the table
AppendBar ==
    /\ plan # <<>>
    /\ bars' = Append0(bars, Head(plan))
    /\ df' = add_all_patterns(bars')
    /\ plan' = Tail(plan)
    /\ UNCHANGED <<legs, sig, score, edits>>
    /\ UNCHANGED <<pipelineVars, raised, sentimentVars, ablationVars, configVars>>

Next == StartLeg \/ AppendBar

Spec == Init /\ [][Next]_vars

-----------------------------------------------------------------------------
(* The same feed after histories that already hold a chart shape            *)

MaxShapeLegs == 2

\* the high of bar i on the polyline through the turning points pts, a
\* sequence of <<bar, high>> pairs
ZigZagHigh(pts, i) ==
    LET k == CHOOSE j \in 1..(Len(pts) - 1) : pts[j][1] <= i /\ i <= pts[j + 1][1]
    IN  pts[k][2] + ((pts[k + 1][2] - pts[k][2]) * (i - pts[k][1]))
                        \div (pts[k + 1][1] - pts[k][1])

ZigZag(pts) == [i \in 0..pts[Len(pts)][1] |-> Candle(ZigZagHigh(pts, i))]

\* a steady rise, then a peak at 4200 (bar 76), a higher peak at 4300 (bar
\* 88) and a third peak at 4210 (the last bar), with a trough after each of
\* the first two peaks
ThreePeaks ==
    ZigZag(<< <<0, 4000>>, <<76, 4200>>, <<82, 4140>>, <<88, 4300>>,
              <<94, 4150>>, <<100, 4210>> >>)

\* a steady decline, then a trough at 4135 (bar 80), a deeper trough at 4040
\* (bar 92) and a third trough at 4130 (the last bar), with a peak after
\* each of the first two troughs
ThreeTroughs ==
    ZigZag(<< <<0, 4400>>, <<80, 4135>>, <<86, 4230>>, <<92, 4040>>,
              <<98, 4220>>, <<104, 4130>> >>)

\* 60 candles whose range narrows: highs rising by 2 and lows by 3 per
\* bar, and highs falling by 3 and lows by 2 per bar
NarrowingUp ==
    [i \in 0..59 |->
        [high |-> 4000 + 2 * i, low |-> 3900 + 3 * i, close |-> 3950 + 2 * i]]

NarrowingDown ==
    [i \in 0..59 |->
        [high |-> 4400 - 3 * i, low |-> 4300 - 2 * i, close |-> 4350 - 3 * i]]

ShapeHistories == {ThreePeaks, ThreeTroughs, NarrowingUp, NarrowingDown}

InitShapes ==
    /\ bars \in ShapeHistories
    /\ df = add_all_patterns(bars)
    /\ plan = <<>>
    /\ legs = 0
    /\ sig = NoSig
    /\ score = summarize_row(NoSig)
    /\ edits = 0
    /\ NoPipeline /\ NoSentiment /\ NoAblation /\ NoConfig

StartShapeLeg ==
    /\ plan = <<>>
    /\ legs < MaxShapeLegs
    /\ \E l \in LegKinds : plan' = l
    /\ legs' = legs + 1
    /\ UNCHANGED <<bars, df, sig, score, edits>>
    /\ UNCHANGED <<pipelineVars, raised, sentimentVars, ablationVars, configVars>>

NextShapes == StartShapeLeg \/ AppendBar

SpecShapes == InitShapes /\ [][NextShapes]_vars

-----------------------------------------------------------------------------
(* Market-structure detector (smc_indicators.py): order blocks, Wyckoff     *)
(* spring / upthrust, change of character, liquidity pools.  The rows of    *)
(* the table carry open, high, low, close and volume.                       *)

\* np.nan in a column of prices or row positions (prices are positive)
NaN == -1

\* comparisons of column values: False as soon as an operand is NaN
NLt(x, y) == x # NaN /\ y # NaN /\ x < y
NGt(x, y) == NLt(y, x)
NLe(x, y) == x # NaN /\ y # NaN /\ x <= y
NGe(x, y) == NLe(y, x)

RECURSIVE RollingSeq(_, _, _, _, _, _)
\* dataframe[col].rolling(N).max() (isMax) or .min(), for the rows lo..hi:
\* NaN while fewer than N rows are available
RollingSeq(b, col, N, isMax, lo, hi) ==
    IF lo > hi THEN <<>>
    ELSE IF lo = hi
    THEN << IF lo - N + 1 < 0 THEN NaN
            ELSE IF isMax THEN MaxOver(b, col, lo - N + 1, lo)
            ELSE MinOver(b, col, lo - N + 1, lo) >>
    ELSE LET mid == (lo + hi) \div 2
         IN  RollingSeq(b, col, N, isMax, lo, mid)
                \o RollingSeq(b, col, N, isMax, mid + 1, hi)

Rolling(b, col, N, isMax) == RollingSeq(b, col, N, isMax, 0, Len0(b) - 1)

\* column.shift(k) at row r, for a column kept as a sequence (row r at r + 1)
Shift(column, k, r) == IF r - k >= 0 THEN column[r - k + 1] ELSE NaN

\* default of _calc_order_blocks' displacement_pct
displacement_pct == Frac(2, 100)

\* price_change_3 at row r >= 3.  The 1e-10 added to the divisor cannot
\* change a comparison with +-2% when the closes are integers.
PriceChange3(b, r) == Frac(b[r].close - b[r - 3].close, b[r - 3].close)

\* bullish_ob / bearish_ob at row r: the candle three rows back closed
\* against the move and the 3-bar change exceeds the displacement
BullishOb(b, r) ==
    /\ r >= 3
    /\ b[r - 3].close < b[r - 3].open
    /\ RGt(PriceChange3(b, r), displacement_pct)

BearishOb(b, r) ==
    /\ r >= 3
    /\ b[r - 3].close > b[r - 3].open
    /\ RLt(PriceChange3(b, r), RNeg(displacement_pct))

\* without the forward fill: a row is its own mark or has none
LastMarks_nofill(b, bull, lo, hi, carry) ==
    [k \in 1..(hi - lo + 1) |->
        IF (IF bull THEN BullishOb(b, lo + k - 1) ELSE BearishOb(b, lo + k - 1))
        THEN lo + k - 1 ELSE NaN]

RECURSIVE LastMarks(_, _, _, _, _)
\* forward fill: for each of the rows lo..hi the last row up to it that is
\* an order block (bullish when bull), carry when there is none from lo on
LastMarks(b, bull, lo, hi, carry) ==
    IF lo > hi THEN <<>>
    ELSE IF lo = hi
    THEN << IF (IF bull THEN BullishOb(b, lo) ELSE BearishOb(b, lo))
            THEN lo ELSE carry >>
    ELSE LET mid == (lo + hi) \div 2
             left == LastMarks(b, bull, lo, mid, carry)
         IN  left \o LastMarks(b, bull, mid + 1, hi, left[Len(left)])

\* the order-block columns, row by row
calc_order_blocks(b) ==
    LET n == Len0(b)
        bullMark == LastMarks(b, TRUE, 0, n - 1, NaN)
        bearMark == LastMarks(b, FALSE, 0, n - 1, NaN)
    IN  [r \in 0..n-1 |->
            LET mb == bullMark[r + 1]
                ms == bearMark[r + 1]
                ob_bull_high == IF mb = NaN THEN NaN ELSE b[mb - 3].high
                ob_bull_low == IF mb = NaN THEN NaN ELSE b[mb - 3].low
                ob_bear_high == IF ms = NaN THEN NaN ELSE b[ms - 3].high
                ob_bear_low == IF ms = NaN THEN NaN ELSE b[ms - 3].low
            IN  [order_block_bull |-> IF mb = r THEN 1 ELSE 0,
                 order_block_bear |-> IF ms = r THEN 1 ELSE 0,
                 testing_bull_ob |->
                    IF NLe(b[r].low, ob_bull_high) /\ NGe(b[r].close, ob_bull_low)
                    THEN 1 ELSE 0,
                 testing_bear_ob |->
                    IF NGe(b[r].high, ob_bear_low) /\ NLe(b[r].close, ob_bear_high)
                    THEN 1 ELSE 0]]

\* default of _calc_wyckoff_patterns' range_lookback, and the volume window
range_lookback == 50
volume_window == 20

\* the trading range read at the row itself, without the shift
TradingRange_self(rolling, r) == Shift(rolling, 0, r)

\* the trading range read two rows back
TradingRange_two(rolling, r) == Shift(rolling, 2, r)

\* rolling_high / rolling_low: .rolling(range_lookback).max().shift(1)
TradingRange(rolling, r) == Shift(rolling, 1, r)

\* low_volume | ultra_high_volume at row r: volume < 0.7 * avg_vol or
\* volume > 2.5 * avg_vol, avg_vol the mean of the last 20 volumes (total:
\* the running totals of the volume column)
VolumeConfirm(b, total, r) ==
    /\ r - volume_window + 1 >= 0
    /\ LET avg_vol == Frac(WindowSum(total, r - volume_window + 1, volume_window),
                           volume_window)
           v == RInt(b[r].volume)
       IN  \/ RLt(v, RMul(Frac(7, 10), avg_vol))
           \/ RGt(v, RMul(Frac(5, 2), avg_vol))

\* the Wyckoff columns, row by row
calc_wyckoff_patterns(b) ==
    LET n == Len0(b)
        highs == Rolling(b, "high", range_lookback, TRUE)
        lows == Rolling(b, "low", range_lookback, FALSE)
        total == TotalsFrom0(b, "volume", FALSE)
    IN  [r \in 0..n-1 |->
            LET rolling_low == TradingRange(lows, r)
                rolling_high == TradingRange(highs, r)
                spring == NLt(b[r].low, rolling_low) /\ NGt(b[r].close, rolling_low)
                upthrust == NGt(b[r].high, rolling_high)
                                /\ NLt(b[r].close, rolling_high)
            IN  [wyckoff_spring |-> IF spring THEN 1 ELSE 0,
                 wyckoff_spring_confirmed |->
                    IF spring /\ VolumeConfirm(b, total, r) THEN 1 ELSE 0,
                 wyckoff_upthrust |-> IF upthrust THEN 1 ELSE 0,
                 wyckoff_upthrust_confirmed |->
                    IF upthrust /\ VolumeConfirm(b, total, r) THEN 1 ELSE 0]]

\* default of _calc_choch's length
choch_length == 20

\* uptrend / downtrend at row r: the rolling extremes (swing_high,
\* swing_low) against the ones length // 2 rows earlier
Uptrend(swing_high, swing_low, r) ==
    /\ r >= 0
    /\ NGt(swing_high[r + 1], Shift(swing_high, choch_length \div 2, r))
    /\ NGt(swing_low[r + 1], Shift(swing_low, choch_length \div 2, r))

Downtrend(swing_high, swing_low, r) ==
    /\ r >= 0
    /\ NLt(swing_low[r + 1], Shift(swing_low, choch_length \div 2, r))
    /\ NLt(swing_high[r + 1], Shift(swing_high, choch_length \div 2, r))

\* a break above the prior swing high counts whatever the trend was
ChochBull_anytrend(swing_high, swing_low, close, r) ==
    NGt(close, Shift(swing_high, choch_length \div 2, r))

\* choch_bull at row r: downtrend.shift(1) & (close > prev_swing_high)
ChochBull(swing_high, swing_low, close, r) ==
    /\ Downtrend(swing_high, swing_low, r - 1)
    /\ NGt(close, Shift(swing_high, choch_length \div 2, r))

\* choch_bear at row r: uptrend.shift(1) & (close < prev_swing_low)
ChochBear(swing_high, swing_low, close, r) ==
    /\ Uptrend(swing_high, swing_low, r - 1)
    /\ NLt(close, Shift(swing_low, choch_length \div 2, r))

\* a trend state that never reports a downtrend
TrendState_nodown(uptrend, downtrend) == IF uptrend THEN 1 ELSE 0

\* trend_state: np.where(uptrend, 1, np.where(downtrend, -1, 0))
TrendState(uptrend, downtrend) ==
    IF uptrend THEN 1 ELSE IF downtrend THEN -1 ELSE 0

\* the change-of-character columns, row by row
calc_choch(b) ==
    LET n == Len0(b)
        swing_high == Rolling(b, "high", choch_length, TRUE)
        swing_low == Rolling(b, "low", choch_length, FALSE)
    IN  [r \in 0..n-1 |->
            [choch_bull |->
                IF ChochBull(swing_high, swing_low, b[r].close, r) THEN 1 ELSE 0,
             choch_bear |->
                IF ChochBear(swing_high, swing_low, b[r].close, r) THEN 1 ELSE 0,
             trend_state |->
                TrendState(Uptrend(swing_high, swing_low, r),
                           Downtrend(swing_high, swing_low, r))]]

\* default of _calc_liquidity_pools' lookback
liquidity_lookback == 50

\* near_swing_high / near_swing_low at row r: within 0.2% of the rolling
\* extreme.  |x - s| / (s + 1e-10) < 0.002 is |x - s| * 500 <= s for
\* integer prices.
NearSwing(x, s) == s # NaN /\ Abs(x - s) * 500 <= s

\* near.rolling(lookback).sum() / lookback at row r; NaN (here <<0, 0>>)
\* while the window is not full
NearCount(b, col, swing, r) ==
    IF r - liquidity_lookback + 1 < 0 THEN <<0, 0>>
    ELSE Frac(Cardinality({q \in (r - liquidity_lookback + 1)..r :
                              NearSwing(b[q][col], swing[q + 1])}),
              liquidity_lookback)

\* the liquidity columns, row by row
calc_liquidity_pools(b) ==
    LET n == Len0(b)
        swing_high == Rolling(b, "high", liquidity_lookback, TRUE)
        swing_low == Rolling(b, "low", liquidity_lookback, FALSE)
    IN  [r \in 0..n-1 |->
            LET prev_high == Shift(swing_high, 1, r)
                prev_low == Shift(swing_low, 1, r)
            IN  [liquidity_above_count |-> NearCount(b, "high", swing_high, r),
                 liquidity_below_count |-> NearCount(b, "low", swing_low, r),
                 liquidity_swept_above |->
                    IF NGt(b[r].high, prev_high) /\ NLt(b[r].close, prev_high)
                    THEN 1 ELSE 0,
                 liquidity_swept_below |->
                    IF NLt(b[r].low, prev_low) /\ NGt(b[r].close, prev_low)
                    THEN 1 ELSE 0]]

\* the structure columns of the table, one record per row
add_all_indicators(b) ==
    LET ob == calc_order_blocks(b)
        wy == calc_wyckoff_patterns(b)
        ch == calc_choch(b)
        lq == calc_liquidity_pools(b)
    IN  [r \in 0..Len0(b)-1 |-> ob[r] @@ wy[r] @@ ch[r] @@ lq[r]]

-----------------------------------------------------------------------------
(* The candles that arrive at the structure detector                        *)

MaxScripts == 2

Ohlcv(o, h, l, c, v) ==
    [open |-> o, high |-> h, low |-> l, close |-> c, volume |-> v]

Flat == Ohlcv(4200, 4200, 4200, 4200, 100)
\* a down-candle and an up-candle that close at 4200
Down4200 == Ohlcv(4210, 4215, 4195, 4200, 100)
Up4200 == Ohlcv(4190, 4205, 4185, 4200, 100)
\* closes at c: 4284 is exactly 2% above 4200, 4116 exactly 2% below
Rally(c) == Ohlcv(4250, c + 5, 4245, c, 300)
Drop(c) == Ohlcv(4150, 4155, c - 5, c, 300)
\* a candle whose low is inside the range of Down4200, and one above it
Retest == Ohlcv(4230, 4235, 4210, 4225, 100)
Away == Ohlcv(4300, 4310, 4290, 4305, 100)
\* a long lower wick down to l and a long upper wick up to h
SpringCandle(l, v) == Ohlcv(4200, 4205, l, 4201, v)
UpthrustCandle(h, v) == Ohlcv(4200, h, 4195, 4199, v)

Scripts ==
    { <<Down4200, Flat, Flat, Rally(4285)>>,
      <<Down4200, Flat, Flat, Rally(4284)>>,
      <<Up4200, Flat, Flat, Drop(4115)>>,
      <<Up4200, Flat, Flat, Drop(4116)>>,
      <<Retest, Away, Retest, Flat>>,
      <<SpringCandle(3900, 100), Flat, SpringCandle(3800, 20),
        SpringCandle(3700, 1000)>>,
      <<UpthrustCandle(4600, 100), Flat, UpthrustCandle(4700, 20),
        UpthrustCandle(4800, 1000)>>,
      <<Flat, Flat, Flat, Flat>> }

\* histories: 50 flat candles, a decline of down-candles, a rise of up-candles
Flat50 == [i \in 0..49 |-> Flat]

Decline45 ==
    [i \in 0..44 |->
        Ohlcv(4297 - 2 * i, 4300 - 2 * i, 4290 - 2 * i, 4294 - 2 * i, 100)]

Rise45 ==
    [i \in 0..44 |->
        Ohlcv(4093 + 2 * i, 4100 + 2 * i, 4090 + 2 * i, 4096 + 2 * i, 100)]

SmcHistories == {Flat50, Decline45, Rise45}

InitSmc ==
    /\ bars \in SmcHistories
    /\ df = add_all_indicators(bars)
    /\ plan = <<>>
    /\ legs = 0
    /\ sig = NoSig
    /\ score = summarize_row(NoSig)
    /\ edits = 0
    /\ NoPipeline /\ NoSentiment /\ NoAblation /\ NoConfig

\* the market starts a new sequence of candles
StartScript ==
    /\ plan = <<>>
    /\ legs < MaxScripts
    /\ \E l \in Scripts : plan' = l
    /\ legs' = legs + 1
    /\ UNCHANGED <<bars, df, sig, score, edits>>
    /\ UNCHANGED <<pipelineVars, raised, sentimentVars, ablationVars, configVars>>

\* a candle closes: it is appended and add_all_indicators runs on the table
AppendCandle ==
    /\ plan # <<>>
    /\ bars' = Append0(bars, Head(plan))
    /\ df' = add_all_indicators(bars')
    /\ plan' = Tail(plan)
    /\ UNCHANGED <<legs, sig, score, edits>>
    /\ UNCHANGED <<pipelineVars, raised, sentimentVars, ablationVars, configVars>>

NextSmc == StartScript \/ AppendCandle

SpecSmc == InitSmc /\ [][NextSmc]_vars

-----------------------------------------------------------------------------
(* summarize_patterns on its own: rows of per-pattern columns of any value,  *)
(* some columns missing                                                      *)

MaxEdits == 1

AggCols == DOMAIN bullish_patterns \cup DOMAIN bearish_patterns

\* 23/50 in a column of weight 1.0 gives a score of exactly 0.1
AggValues == {Frac(-1, 2), Zero, Frac(23, 50), Frac(1, 2), One, Frac(3, 2)}

InitAgg ==
    /\ bars = Decline(1)
    /\ df = add_all_patterns(bars)
    /\ plan = <<>>
    /\ legs = 0
    /\ sig \in {NoSig} \cup
                {[c \in AggCols |-> IF c \in DOMAIN bullish_patterns THEN v ELSE w] :
                    v \in AggValues, w \in AggValues}
    /\ score = summarize_row(sig)
    /\ edits = 0
    /\ NoPipeline /\ NoSentiment /\ NoAblation /\ NoConfig

\* a column of the row gets a value (the column is created when missing)
SetSignal ==
    /\ edits < MaxEdits
    /\ \E c \in AggCols, v \in AggValues : sig' = (c :> v) @@ sig
    /\ score' = summarize_row(sig')
    /\ edits' = edits + 1
    /\ UNCHANGED <<bars, df, plan, legs>>
    /\ UNCHANGED <<pipelineVars, raised, sentimentVars, ablationVars, configVars>>

\* a column is removed from the row
DropColumn ==
    /\ edits < MaxEdits
    /\ \E c \in DOMAIN sig : sig' = [k \in DOMAIN sig \ {c} |-> sig[k]]
    /\ score' = summarize_row(sig')
    /\ edits' = edits + 1
    /\ UNCHANGED <<bars, df, plan, legs>>
    /\ UNCHANGED <<pipelineVars, raised, sentimentVars, ablationVars, configVars>>

NextAgg == SetSignal \/ DropColumn

SpecAgg == InitAgg /\ [][NextAgg]_vars

-----------------------------------------------------------------------------
(* Fear & Greed index (indicators/data_enhancement.py): one HTTP request,   *)
(* cached for an hour.  Times are readings of datetime.now() in minutes.    *)

\* timedelta(hours=1), in minutes
cache_minutes == 60

MaxNow == 122
MaxRequests == 3

\* the cache as the class is loaded
EmptyCache == [value |-> None, classification |-> "None", timestamp |-> None]

\* the cache counts at any age up to and including one hour
CacheFresh_incl(cache, t) ==
    cache.timestamp # None /\ t - cache.timestamp <= cache_minutes

\* if _fg_cache['timestamp']: cache_age = now - timestamp;
\* if cache_age < timedelta(hours=1): return _fg_cache
CacheFresh(cache, t) ==
    cache.timestamp # None /\ t - cache.timestamp < cache_minutes

\* int(): the texts it accepts, with their values
IntOf ==
    ("0" :> 0) @@ ("19" :> 19) @@ ("20" :> 20) @@ ("50" :> 50) @@ ("80" :> 80)
        @@ ("81" :> 81) @@ ("100" :> 100)

\* JSON documents the API may answer with
Entry(value, classification) ==
    [name |-> "Fear and Greed Index",
     data |-> << [value |-> value, value_classification |-> classification] >>]

Payloads ==
    { <<>>,                                         \* {} or null
      [name |-> "Fear and Greed Index"],            \* no "data" key
      [data |-> <<>>],                              \* empty list
      [data |-> << [value_classification |-> "Fear"] >>],
      [data |-> << [value |-> "20"] >>],
      Entry("n/a", "Fear"),
      Entry("19", "Extreme Fear"), Entry("50", "Neutral"),
      Entry("81", "Extreme Greed") }

\* what one HTTP exchange can end with: requests.get raises, raise_for_status
\* raises, response.json() raises, or a JSON document arrives
Exchanges ==
    { [kind |-> k] : k \in {"connection_error", "http_error", "invalid_json"} }
        \cup { [kind |-> "json", body |-> b] : b \in Payloads }

\* the try block reaches "return result": no exception, the document has a
\* non-empty data list whose first entry has both fields, the value an int
FetchSucceeds(resp) ==
    /\ resp.kind = "json"
    /\ DOMAIN resp.body # {}
    /\ "data" \in DOMAIN resp.body
    /\ Len(resp.body.data) > 0
    /\ "value" \in DOMAIN resp.body.data[1]
    /\ resp.body.data[1].value \in DOMAIN IntOf
    /\ "value_classification" \in DOMAIN resp.body.data[1]

\* the result dict built from the first entry of the data list
FetchResult(resp, t) ==
    [value |-> IntOf[resp.body.data[1].value],
     classification |-> resp.body.data[1].value_classification,
     timestamp |-> t]

\* a failed fetch answers with whatever the cache holds
NeutralDefault_stale(cache, t) ==
    IF cache.timestamp # None THEN cache
    ELSE [value |-> 50, classification |-> "Neutral", timestamp |-> t]

\* Return neutral if API fails
NeutralDefault(cache, t) ==
    [value |-> 50, classification |-> "Neutral", timestamp |-> t]

\* get_fear_greed_index at time t when the exchange, if one is made, ends
\* with resp: what is returned, the cache afterwards, the exchange made
get_fear_greed_index(cache, t, resp) ==
    IF CacheFresh(cache, t)
    THEN [returned |-> cache, cache |-> cache, exchange |-> [kind |-> "none"]]
    ELSE IF FetchSucceeds(resp)
    THEN [returned |-> FetchResult(resp, t), cache |-> FetchResult(resp, t),
          exchange |-> resp]
    ELSE [returned |-> NeutralDefault(cache, t), cache |-> cache,
          exchange |-> resp]

\* the four columns add_fear_greed_features writes on every row
fear_greed_columns(fg_value) ==
    [fear_greed_value |-> fg_value,
     fear_greed_normalized |-> Frac(fg_value - 50, 50),
     is_extreme_fear |-> IF fg_value < 20 THEN 1 ELSE 0,
     is_extreme_greed |-> IF fg_value > 80 THEN 1 ELSE 0]

\* dataframe[column] = value, for each column of cols, on every row
AssignColumns(table, cols) == [r \in DOMAIN table |-> cols @@ table[r]]

InitSentiment ==
    /\ bars = Decline(1)
    /\ df = add_all_patterns(bars)
    /\ plan = <<>>
    /\ legs = 0
    /\ sig = NoSig
    /\ score = summarize_row(NoSig)
    /\ edits = 0
    /\ frame = bars /\ ran = {} /\ features = <<>> /\ raised = "none"
    /\ NoSentiment /\ NoAblation /\ NoConfig

\* the wall clock moves on
Tick ==
    /\ \E d \in {30, 31} : now + d <= MaxNow /\ now' = now + d
    /\ UNCHANGED <<patternVars, pipelineVars, raised, fg_cache, requests,
                   response, fg_result, ablationVars, configVars>>

\* add_fear_greed_features(dataframe), get_fear_greed_index included
AddFearGreedFeatures ==
    \E resp \in Exchanges :
        LET call == get_fear_greed_index(fg_cache, now, resp)
            sent == IF call.exchange.kind = "none" THEN 0 ELSE 1
        IN  /\ requests + sent <= MaxRequests
            /\ fg_cache' = call.cache
            /\ fg_result' = call.returned
            /\ response' = call.exchange
            /\ requests' = requests + sent
            /\ frame' = AssignColumns(frame, fear_greed_columns(call.returned.value))
            /\ raised' = "none"
            /\ UNCHANGED <<patternVars, ran, features, now, ablationVars,
                           configVars>>

NextSentiment == Tick \/ AddFearGreedFeatures

SpecSentiment == InitSentiment /\ [][NextSentiment]_vars

-----------------------------------------------------------------------------
(* Feature ablation script (scripts/feature_ablation.py).  A file's content  *)
(* is the JSON value it holds; <<>> stands for a file that does not exist.    *)

ABLATION_FEATURES ==
    << "vsa", "smc", "wave", "chart_patterns", "trailing_stop", "regime_filter",
       "confluence_filter", "trend_filter", "pca", "noise_regularization",
       "htf_ob_confluence" >>

\* BACKUP_PATH.exists()
Exists(file) == DOMAIN file # {}

\* dict.get(key, default)
Get(dict, key, default) == IF key \in DOMAIN dict THEN dict[key] ELSE default

\* dict[key] = value
SetKey(dict, key, value) == (key :> value) @@ dict

\* backup_config: copies config.json unless a backup file is already there
backup_config(fs) ==
    IF ~ Exists(fs.backup) THEN [fs EXCEPT !.backup = fs.config] ELSE fs

\* restore_config: copies the backup over config.json when there is one
restore_config(fs) ==
    IF Exists(fs.backup) THEN [fs EXCEPT !.config = fs.backup] ELSE fs

\* set_feature(feature, enabled): load_config, set the flag, save_config
set_feature(fs, feature, flag) ==
    LET loaded == fs.config
        cfg == IF "custom_flags" \in DOMAIN loaded THEN loaded
               ELSE SetKey(loaded, "custom_flags", <<>>)
    IN  [fs EXCEPT !.config =
            SetKey(cfg, "custom_flags", SetKey(cfg.custom_flags, feature, flag))]

\* toggle_feature(feature): the flag becomes the negation of its value,
\* False when it is missing
toggle_feature(fs, feature) ==
    LET flags == Get(fs.config, "custom_flags", <<>>)
    IN  set_feature(fs, feature, ~ Get(flags, feature, FALSE))

RECURSIVE AblationLoop(_, _, _)
\* the iterations i .. 11 of run_ablation_all's loop: the feature is set to
\* the negation of its original state, the test runs, the feature is set
\* back to its original state
AblationLoop(i, fs, original_flags) ==
    IF i > Len(ABLATION_FEATURES) THEN fs
    ELSE LET feature == ABLATION_FEATURES[i]
             current_state == Get(original_flags, feature, FALSE)
             toggled == set_feature(fs, feature, ~ current_state)
         IN  AblationLoop(i + 1, set_feature(toggled, feature, current_state),
                          original_flags)

\* run_ablation_all when the baseline test ends with baseline_success
run_ablation_all(fs, baseline_success) ==
    LET backed == backup_config(fs)
        original_flags == Get(backed.config, "custom_flags", <<>>)
    IN  IF ~ baseline_success THEN restore_config(backed)
        ELSE restore_config(AblationLoop(1, backed, original_flags))

\* the features named on the command line
CommandFeatures == {"vsa", "pca"}

\* config.json as the user left it
UserConfigs ==
    { [stake_currency |-> "USDT"],
      [stake_currency |-> "USDT", custom_flags |-> ("vsa" :> TRUE)] }

Files == [config |-> config_json, backup |-> backup_json]

InitAblation ==
    /\ bars = Decline(1)
    /\ df = add_all_patterns(bars)
    /\ plan = <<>>
    /\ legs = 0
    /\ sig = NoSig
    /\ score = summarize_row(NoSig)
    /\ edits = 0
    /\ NoPipeline /\ NoSentiment /\ NoConfig
    /\ config_json \in UserConfigs
    /\ backup_json = <<>>
    /\ ablation = "idle"

\* --backup
Backup ==
    /\ config_json' = backup_config(Files).config
    /\ backup_json' = backup_config(Files).backup
    /\ ablation' = "backup"
    /\ UNCHANGED <<patternVars, pipelineVars, raised, sentimentVars, configVars>>

\* --restore
Restore ==
    /\ config_json' = restore_config(Files).config
    /\ backup_json' = restore_config(Files).backup
    /\ ablation' = "restore"
    /\ UNCHANGED <<patternVars, pipelineVars, raised, sentimentVars, configVars>>

\* --toggle FEATURE
Toggle ==
    /\ \E f \in CommandFeatures : config_json' = toggle_feature(Files, f).config
    /\ ablation' = "toggle"
    /\ UNCHANGED <<backup_json, patternVars, pipelineVars, raised, sentimentVars,
                   configVars>>

\* --enable FEATURE
Enable ==
    /\ \E f \in CommandFeatures : config_json' = set_feature(Files, f, TRUE).config
    /\ ablation' = "enable"
    /\ UNCHANGED <<backup_json, patternVars, pipelineVars, raised, sentimentVars,
                   configVars>>

\* --disable FEATURE
Disable ==
    /\ \E f \in CommandFeatures : config_json' = set_feature(Files, f, FALSE).config
    /\ ablation' = "disable"
    /\ UNCHANGED <<backup_json, patternVars, pipelineVars, raised, sentimentVars,
                   configVars>>

\* --run-all: run_ablation_all from start to return
RunAll ==
    /\ \E baseline_success \in BOOLEAN :
          /\ config_json' = run_ablation_all(Files, baseline_success).config
          /\ backup_json' = run_ablation_all(Files, baseline_success).backup
          /\ ablation' = IF baseline_success THEN "complete" ELSE "baseline_failed"
    /\ UNCHANGED <<patternVars, pipelineVars, raised, sentimentVars, configVars>>

NextAblation == Backup \/ Restore \/ Toggle \/ Enable \/ Disable \/ RunAll

SpecAblation == InitAblation /\ [][NextAblation]_vars

-----------------------------------------------------------------------------
(* Feature flags (feature_registry.py) and the labeling hook                 *)
(* (FreqAIStrategy.set_freqai_targets).  The host builds the flags when the   *)
(* configuration is loaded, then calls the feature_engineering_* hooks, then  *)
(* set_freqai_targets.                                                        *)

Feature(default, conflicts_with) ==
    [default |-> default, conflicts_with |-> conflicts_with]

AVAILABLE_FEATURES ==
    [atr_stoploss |-> Feature(TRUE, {"fixed_stoploss"}),
     fixed_stoploss |-> Feature(FALSE, {"atr_stoploss"}),
     trailing_stop |-> Feature(FALSE, {}),
     regression_labels |-> Feature(TRUE, {"trend_scanning"}),
     trend_scanning |-> Feature(FALSE, {"regression_labels"}),
     regime_filter |-> Feature(TRUE, {}),
     confluence_filter |-> Feature(TRUE, {}),
     trend_filter |-> Feature(TRUE, {}),
     structure_filter |-> Feature(FALSE, {}),
     pca |-> Feature(FALSE, {}),
     noise_regularization |-> Feature(FALSE, {})]

\* the "features" lists of VERSION_PRESETS
VERSION_PRESETS ==
    ("v1.0_baseline" :>
        {"atr_stoploss", "regression_labels", "regime_filter",
         "confluence_filter", "trend_filter"})
    @@ ("v1.1_experimental" :>
        {"fixed_stoploss", "trend_scanning", "regime_filter", "confluence_filter",
         "trend_filter", "pca", "noise_regularization"})

\* FeatureFlags._load_features: explicit flags with defaults, else a known
\* preset, else the defaults
load_features(freqai_config) ==
    LET explicit_flags == Get(freqai_config, "feature_flags", <<>>)
        version_preset == Get(freqai_config, "feature_version", "None")
    IN  IF DOMAIN explicit_flags # {}
        THEN [f \in DOMAIN AVAILABLE_FEATURES |->
                 Get(explicit_flags, f, AVAILABLE_FEATURES[f].default)]
        ELSE IF version_preset \in DOMAIN VERSION_PRESETS
        THEN [f \in DOMAIN AVAILABLE_FEATURES |->
                 f \in VERSION_PRESETS[version_preset]]
        ELSE [f \in DOMAIN AVAILABLE_FEATURES |-> AVAILABLE_FEATURES[f].default]

\* FeatureFlags.get_enabled_features
get_enabled_features(flags) == {f \in DOMAIN flags : flags[f]}

\* FeatureFlags._validate_conflicts: the (feature, conflict) pairs it logs a
\* warning for; it raises nothing
validate_conflicts(flags) ==
    {<<f, c>> \in get_enabled_features(flags) \X get_enabled_features(flags) :
        c \in AVAILABLE_FEATURES[f].conflicts_with}

\* set_freqai_targets: the exception it raises, "none" when labels are set
set_freqai_targets(freqai_config) ==
    LET flags == Get(freqai_config, "feature_flags", <<>>)
        use_trend_scanning == Get(flags, "trend_scanning", FALSE)
        use_regression == Get(flags, "regression_labels", TRUE)
    IN  IF use_trend_scanning /\ use_regression THEN "ValueError"
        ELSE IF ~ use_trend_scanning /\ ~ use_regression THEN "ValueError"
        ELSE "none"

\* the flags a configuration may set explicitly
FlagNames == {"trend_scanning", "regression_labels", "atr_stoploss", "fixed_stoploss"}

FlagDicts == UNION {[names -> BOOLEAN] : names \in SUBSET FlagNames}

\* the "freqai" section of config.json
FreqaiConfigs ==
    { [feature_flags |-> flags] : flags \in FlagDicts }
        \cup { [feature_version |-> v] : v \in {"v1.0_baseline", "v1.1_experimental", "v9"} }
        \cup { <<>> }

InitConfig ==
    /\ bars = Decline(1)
    /\ df = add_all_patterns(bars)
    /\ plan = <<>>
    /\ legs = 0
    /\ sig = NoSig
    /\ score = summarize_row(NoSig)
    /\ edits = 0
    /\ NoPipeline /\ NoSentiment /\ NoAblation
    /\ config \in FreqaiConfigs
    /\ enabled = <<>>
    /\ stage = "start"
    /\ warnings = {}

\* FeatureFlags(config): the flags are loaded and validated
LoadFlags ==
    /\ stage = "start"
    /\ enabled' = load_features(config)
    /\ warnings' = validate_conflicts(enabled')
    /\ stage' = "loaded"
    /\ UNCHANGED <<config, raised, patternVars, pipelineVars, sentimentVars,
                   ablationVars>>

\* the host runs the feature_engineering_* hooks on the pair's candles
FeatureEngineering ==
    /\ stage = "loaded"
    /\ stage' = "features"
    /\ UNCHANGED <<config, enabled, warnings, raised, patternVars, pipelineVars,
                   sentimentVars, ablationVars>>

\* the host calls set_freqai_targets on the table with its features
SetTargets ==
    /\ stage = "features"
    /\ raised' = set_freqai_targets(config)
    /\ stage' = IF raised' = "none" THEN "targets" ELSE "failed"
    /\ UNCHANGED <<config, enabled, warnings, patternVars, pipelineVars,
                   sentimentVars, ablationVars>>

NextConfig == LoadFlags \/ FeatureEngineering \/ SetTargets

SpecConfig == InitConfig /\ [][NextConfig]_vars

-----------------------------------------------------------------------------
(* The two pipelines step by step: the DataFrame object with all its         *)
(* columns, every matcher and detector a step of its own.  add_all_patterns   *)
(* runs find_swing_points first and summarize_patterns last; the steps in     *)
(* between are taken in any order.                                            *)

InputCols == {"date", "open", "high", "low", "close", "volume"}

Matchers ==
    {"detect_double_top", "detect_double_bottom", "detect_head_and_shoulders",
     "detect_wedge", "detect_triangle", "detect_flag"}

Detectors ==
    {"_calc_order_blocks", "_calc_wyckoff_patterns", "_calc_choch",
     "_calc_liquidity_pools"}

\* the keys each _calc_* method of SMCIndicators writes into features
FeatureKeys ==
    [_calc_sonic_r |->
        {"dist_to_sonic_h", "dist_to_sonic_l", "dist_to_sonic_c",
         "sonic_tunnel_width", "sonic_position"},
     _calc_institutional_emas |->
        {"dist_to_ema_369", "slope_ema_369", "dist_to_ema_630", "slope_ema_630",
         "ema_369_vs_630"},
     _calc_fair_value_gaps |->
        {"fvg_bull", "fvg_bear", "fvg_size", "fvg_bull_count_20",
         "fvg_bear_count_20", "fvg_net_count"},
     _calc_smc_structure |->
        {"dist_to_swing_high", "dist_to_swing_low", "position_in_range",
         "bos_bull", "bos_bear", "structure_direction"},
     _calc_moon_phases |->
        {"moon_phase", "moon_illumination", "moon_is_new", "moon_is_full"},
     _calc_order_blocks |->
        {"order_block_bull", "order_block_bear", "dist_to_bull_ob",
         "dist_to_bear_ob", "testing_bull_ob", "testing_bear_ob"},
     _calc_wyckoff_patterns |->
        {"wyckoff_spring", "wyckoff_spring_confirmed", "wyckoff_upthrust",
         "wyckoff_upthrust_confirmed", "wyckoff_range_position",
         "is_discount_zone", "is_premium_zone", "is_equilibrium"},
     _calc_choch |-> {"choch_bull", "choch_bear", "trend_state"},
     _calc_liquidity_pools |->
        {"liquidity_above_count", "liquidity_below_count",
         "dist_to_liquidity_above", "dist_to_liquidity_below",
         "liquidity_swept_above", "liquidity_swept_below"}]

\* the swing columns as the matchers read them back from the table
SwingsOf(table) ==
    [swing_high |-> [r \in DOMAIN table |-> table[r].swing_high],
     swing_low |-> [r \in DOMAIN table |-> table[r].swing_low]]

\* a step that hands back a table holding the input columns and its own
WriteColumns_fresh(table, rows) ==
    [r \in DOMAIN table |->
        rows[r] @@ [c \in DOMAIN table[r] \cap (InputCols \cup {"swing_high", "swing_low"})
                       |-> table[r][c]]]

\* dataframe[column] = ..., for the columns of rows: a column is created or
\* overwritten, every other column stays
WriteColumns(table, rows) == [r \in DOMAIN table |-> rows[r] @@ table[r]]

\* find_swing_points(dataframe): the rows it writes
SwingRowsOf(table) ==
    LET sw == find_swing_points(table)
    IN  [r \in DOMAIN table |->
            [swing_high |-> sw.swing_high[r], swing_low |-> sw.swing_low[r]]]

\* the rows matcher m writes, computed from the table as it is
MatcherRows(m, table) ==
    LET sw == SwingsOf(table)
    IN  CASE m = "detect_double_top" ->
                LET dt == detect_double_top(table, sw)
                IN  [r \in DOMAIN table |->
                        [double_top |-> dt.double_top[r],
                         double_top_neckline |-> dt.double_top_neckline[r]]]
          [] m = "detect_double_bottom" ->
                LET db == detect_double_bottom(table, sw)
                IN  [r \in DOMAIN table |->
                        [double_bottom |-> db.double_bottom[r],
                         double_bottom_neckline |-> db.double_bottom_neckline[r]]]
          [] m = "detect_head_and_shoulders" ->
                LET hs == detect_head_and_shoulders(table, sw)
                IN  [r \in DOMAIN table |->
                        [head_shoulders |-> hs.head_shoulders[r],
                         head_shoulders_inv |-> hs.head_shoulders_inv[r]]]
          [] m = "detect_wedge" -> detect_wedge(table, WindowTotals(table))
          [] m = "detect_triangle" -> detect_triangle(table, WindowTotals(table))
          [] m = "detect_flag" -> detect_flag(table, WindowTotals(table))

\* the rows detector d puts into the features dict
DetectorRows(d, table) ==
    CASE d = "_calc_order_blocks" -> calc_order_blocks(table)
      [] d = "_calc_wyckoff_patterns" -> calc_wyckoff_patterns(table)
      [] d = "_calc_choch" -> calc_choch(table)
      [] d = "_calc_liquidity_pools" -> calc_liquidity_pools(table)

\* the features alone are handed back
Concat_features(table, feats) == feats

\* pd.concat([dataframe, features_df], axis=1)
Concat(table, feats) == [r \in DOMAIN table |-> table[r] @@ feats[r]]

\* the date column: 5-minute candles in order, with a repeated stamp, or
\* newest first
StampOrders == {"ascending", "repeated", "descending"}

Stamp(stamp_order, n, r) ==
    CASE stamp_order = "ascending" -> 5 * r
      [] stamp_order = "repeated" -> IF r = n - 1 THEN 5 * (r - 1) ELSE 5 * r
      [] stamp_order = "descending" -> 5 * (n - 1 - r)

\* an OHLCV dataframe from a table of candles
Dated(b, stamp_order) ==
    [r \in DOMAIN b |->
        b[r] @@ [date |-> Stamp(stamp_order, Len0(b), r), open |-> b[r].close,
                 volume |-> 100]]

\* 50 flat candles, then a spring and an upthrust
Sweeps ==
    [i \in 0..53 |->
        CASE i = 50 -> SpringCandle(3900, 100)
          [] i = 52 -> UpthrustCandle(4700, 20)
          [] OTHER -> Flat]

\* the three peaks, then the first five candles of a rise towards 4200
PeaksAndRise ==
    [i \in 0..105 |->
        IF i <= 100 THEN ThreePeaks[i] ELSE LegCandle(4200, TRUE, i - 100)]

PipelineFrames ==
    {Dated(b, o) : b \in {PeaksAndRise, NarrowingUp, Sweeps}, o \in StampOrders}

InitPipeline ==
    /\ bars \in PipelineFrames
    /\ df = <<>>
    /\ plan = <<>>
    /\ legs = 0
    /\ sig = NoSig
    /\ score = summarize_row(NoSig)
    /\ edits = 0
    /\ frame = bars
    /\ ran = {}
    /\ features = [r \in DOMAIN bars |-> <<>>]
    /\ raised = "none"
    /\ NoSentiment /\ NoAblation /\ NoConfig

\* Step 1 of add_all_patterns
FindSwingPoints ==
    /\ ran = {}
    /\ frame' = WriteColumns(frame, SwingRowsOf(frame))
    /\ ran' = {"find_swing_points"}
    /\ UNCHANGED <<patternVars, features, raised, sentimentVars, ablationVars,
                   configVars>>

\* Step 2: one of the six matchers
RunMatcher ==
    /\ "find_swing_points" \in ran
    /\ \E m \in Matchers \ ran :
          /\ frame' = WriteColumns(frame, MatcherRows(m, frame))
          /\ ran' = ran \cup {m}
    /\ UNCHANGED <<patternVars, features, raised, sentimentVars, ablationVars,
                   configVars>>

\* Step 3: summarize_patterns
SummarizePatterns ==
    /\ Matchers \subseteq ran
    /\ "summarize_patterns" \notin ran
    /\ frame' = summarize_patterns(frame)
    /\ ran' = ran \cup {"summarize_patterns"}
    /\ UNCHANGED <<patternVars, features, raised, sentimentVars, ablationVars,
                   configVars>>

\* add_all_indicators: one of the structure detectors fills the dict
RunDetector ==
    /\ "find_swing_points" \notin ran
    /\ \E d \in Detectors \ ran :
          /\ features' = WriteColumns(features, DetectorRows(d, frame))
          /\ ran' = ran \cup {d}
    /\ UNCHANGED <<patternVars, frame, raised, sentimentVars, ablationVars,
                   configVars>>

\* add_all_indicators: the single concat
ConcatFeatures ==
    /\ Detectors \subseteq ran
    /\ "concat" \notin ran
    /\ frame' = Concat(frame, features)
    /\ ran' = ran \cup {"concat"}
    /\ UNCHANGED <<patternVars, features, raised, sentimentVars, ablationVars,
                   configVars>>

NextPipeline ==
    FindSwingPoints \/ RunMatcher \/ SummarizePatterns \/ RunDetector
        \/ ConcatFeatures

SpecPipeline == InitPipeline /\ [][NextPipeline]_vars

-----------------------------------------------------------------------------
(* Properties                                                               *)

\* the per-pattern confidence columns
PatternCols ==
    {"double_top", "double_bottom", "head_shoulders", "head_shoulders_inv",
     "rising_wedge", "falling_wedge", "ascending_triangle",
     "descending_triangle", "symmetrical_triangle", "bull_flag", "bear_flag"}

\* a step that appends a bar to the table (and reruns add_all_patterns)
BarAppended == Len0(bars') = Len0(bars) + 1

\* C1: no lookahead for pattern detections.  When a bar is appended, every
\* pattern column keeps its value at every row that was already at least
\* `order` bars old (the confirmation horizon of the slowest detector): a
\* past detection is the same on the longer series as on the shorter one.
C1_PastDetectionsKept ==
    [][BarAppended =>
        \A r \in 0..(Len0(bars) - 1 - order) :
            \A c \in PatternCols : df'[r][c] = df[r][c]]_vars

\* C2: no lookahead for swing points.  A swing reported at row r has its
\* extremum at bar r - order (so r >= order, the value is that bar's high or
\* low, and that bar is extreme among the bars r - 2*order .. r), and when a
\* bar is appended the swing_high / swing_low of every existing row is
\* unchanged (it is the same on every prefix that contains the row).
C2_SwingNoLookahead ==
    [][BarAppended =>
        /\ \A r \in DOMAIN df :
              /\ df'[r].swing_high = df[r].swing_high
              /\ df'[r].swing_low = df[r].swing_low
        /\ \A r \in DOMAIN df' :
              /\ df'[r].swing_high # 0 =>
                    /\ r >= order
                    /\ df'[r].swing_high = bars'[r - order].high
                    /\ \A j \in 0..r : j >= r - 2 * order =>
                          bars'[j].high <= bars'[r - order].high
              /\ df'[r].swing_low # 0 =>
                    /\ r >= order
                    /\ df'[r].swing_low = bars'[r - order].low
                    /\ \A j \in 0..r : j >= r - 2 * order =>
                          bars'[j].low >= bars'[r - order].low]_vars

\* a candle of a leg has just been appended and its row reports a swing high
\* (the extremum lies `order` bars back), while older rows report swings too
C2_Witness ==
    LET n == Len0(bars)
    IN  /\ legs > 0
        /\ Len(plan) < LegLen
        /\ n > 2 * order
        /\ df[n - 1].swing_high # 0
        /\ \E r \in 0..(n - 2) : df[r].swing_low # 0

\* C3: confidence bounds.  Every value in a per-pattern confidence column,
\* at every row, lies in [0, 1].
C3_ConfidenceBounds ==
    \A r \in DOMAIN df :
        \A c \in PatternCols : RLe(Zero, df[r][c]) /\ RLe(df[r][c], One)

C5_NetAndStrength ==
    LET bull == score.pattern_bull_score
        bear == score.pattern_bear_score
        net == score.pattern_net_score
        strength == score.pattern_strength
        g == Gcd(bull[2], bear[2])
        m == (bull[2] \div g) * bear[2]
    IN  /\ net[1] * m
              = (bull[1] * (bear[2] \div g) - bear[1] * (bull[2] \div g)) * net[2]
        /\ strength \in {bull, bear}
        /\ RLe(bull, strength) /\ RLe(bear, strength)

\* both scores are positive and differ, so net is neither score nor zero
C5_Witness ==
    /\ edits > 0
    /\ RGt(score.pattern_bull_score, Zero)
    /\ RGt(score.pattern_bear_score, score.pattern_bull_score)
    /\ RLt(score.pattern_net_score, Zero)

\* the value of column c in the row, clipped to [0, 1]; a missing column
\* contributes nothing
Clipped(c) ==
    IF c \notin DOMAIN sig THEN Zero
    ELSE IF sig[c][1] < 0 THEN Zero
    ELSE IF sig[c][1] > sig[c][2] THEN One
    ELSE sig[c]

\* the sum of clip(signal) * weight / (sum of the weights), weights in tenths
Weighted(c1, c15, c8, c7, c6) ==
    RDiv(RAdd(RAdd(RAdd(RAdd(RMul(Clipped(c1), Frac(10, 10)),
                             RMul(Clipped(c15), Frac(15, 10))),
                        RMul(Clipped(c8), Frac(8, 10))),
                   RMul(Clipped(c7), Frac(7, 10))),
              RMul(Clipped(c6), Frac(6, 10))),
         Frac(10 + 15 + 8 + 7 + 6, 10))

SwingRowsAll(col) == {q \in DOMAIN df : df[q][col] # 0}

\* C7: detection placement.  For every length the matchers accept, a nonzero
\* double top (head and shoulders) at row r has its two (three) swing highs
\* at bars not later than r, i.e. recorded at rows up to r + order, and a
\* nonzero double bottom (inverse head and shoulders) likewise has its swing
\* lows at bars not later than r: no detection sits earlier than the bar of
\* its last swing point.
C7_DetectionNotEarly ==
    \A r \in DOMAIN df :
        LET highs == {q \in SwingRowsAll("swing_high") : q - order <= r}
            lows == {q \in SwingRowsAll("swing_low") : q - order <= r}
        IN  /\ df[r].double_top # Zero => Cardinality(highs) >= 2
            /\ df[r].double_bottom # Zero => Cardinality(lows) >= 2
            /\ df[r].head_shoulders # Zero => Cardinality(highs) >= 3
            /\ df[r].head_shoulders_inv # Zero => Cardinality(lows) >= 3

\* C8: double-top scenario.  When the table (of a length the matcher accepts)
\* holds two adjacent swing highs of equal price, at most 50 bars apart, with
\* a lower swing low between them, double_top is > 0 at the second peak: at
\* its own bar, or at least at the row where that peak is reported.
C8_DoubleTopAtSecondPeak ==
    LET H == SwingRowsAll("swing_high")
        L == SwingRowsAll("swing_low")
    IN  Len0(bars) >= 50 =>
            \A q1 \in H, q2 \in H :
                (/\ q1 < q2
                 /\ q2 - q1 <= 50
                 /\ \A q \in H : ~ (q1 < q /\ q < q2)
                 /\ df[q1].swing_high = df[q2].swing_high
                 /\ \E q \in L : /\ q1 < q /\ q < q2
                                 /\ df[q].swing_low < df[q1].swing_high)
                => \/ RGt(df[q2 - order].double_top, Zero)
                   \/ RGt(df[q2].double_top, Zero)

\* the rows of the last 100 rows at which column col reports a swing
SwingRows(col) ==
    {q \in DOMAIN df : q >= Len0(bars) - 100 /\ df[q][col] # 0}

\* pairs of such rows with no swing of the same column between them
AdjacentPairs(col) ==
    {pr \in SwingRows(col) \X SwingRows(col) :
        /\ pr[1] < pr[2]
        /\ \A q \in SwingRows(col) : ~ (pr[1] < q /\ q < pr[2])}

\* the swings of column col strictly between rows q1 and q2
OppBetween(col, q1, q2) == {q \in SwingRows(col) : q1 < q /\ q < q2}

\* the row a detection for the swing reported at row q2 is written to:
\* len - 100 + (position of q2 in the last 100 rows)
TargetRow(q2) ==
    LET n == Len0(bars)
    IN  n - 100 + (q2 - (IF n > 100 THEN n - 100 ELSE 0))

\* the tolerance boundary for the pairs of column swingCol
BoundaryRule(swingCol, oppCol, confCol, neckCol) ==
    \A pr \in AdjacentPairs(swingCol) :
        LET p1 == df[pr[1]][swingCol]
            p2 == df[pr[2]][swingCol]
            t == TargetRow(pr[2])
        IN  t \in DOMAIN df =>
              /\ Abs(p1 - p2) * 100 > 2 * p1 =>
                    df[t][confCol] = Zero /\ df[t][neckCol] = Zero
              /\ (/\ Abs(p1 - p2) * 100 = 2 * p1
                  /\ OppBetween(oppCol, pr[1], pr[2]) # {})
                 => df[t][neckCol] # Zero

\* C9: tolerance boundary.  A pair of adjacent swing highs (lows) whose
\* relative difference |p1 - p2| / p1 is exactly 2% is accepted (with a swing
\* of the other type between them a detection is written for it), and a pair
\* whose difference is more than 2% is rejected (nothing is written for it).
C9_ToleranceBoundary ==
    Len0(bars) >= 50 =>
        /\ BoundaryRule("swing_high", "swing_low",
                        "double_top", "double_top_neckline")
        /\ BoundaryRule("swing_low", "swing_high",
                        "double_bottom", "double_bottom_neckline")

\* a pair of swing highs exactly 2% apart has been accepted and written, in
\* a table of at least 100 rows
C9_Witness ==
    /\ Len0(bars) >= 100
    /\ \E pr \in AdjacentPairs("swing_high") :
          /\ Abs(df[pr[1]].swing_high - df[pr[2]].swing_high) * 100
                = 2 * df[pr[1]].swing_high
          /\ TargetRow(pr[2]) \in DOMAIN df
          /\ RGt(df[TargetRow(pr[2])].double_top, Zero)

\* min(1, depth * 10) for depth = dist / p1
DepthConfidence(dist, p1) ==
    IF 10 * dist >= p1 THEN One ELSE Frac(10 * dist, p1)

\* the neckline rule for the pairs of column swingCol; top tells a double
\* top (neckline = lowest low between) from a double bottom (highest high)
NecklineRule(swingCol, oppCol, confCol, neckCol, top) ==
    /\ \A pr \in AdjacentPairs(swingCol) :
          LET p1 == df[pr[1]][swingCol]
              p2 == df[pr[2]][swingCol]
              t == TargetRow(pr[2])
              prices == {df[q][oppCol] : q \in OppBetween(oppCol, pr[1], pr[2])}
              nk == IF top
                    THEN CHOOSE m \in prices : \A x \in prices : m <= x
                    ELSE CHOOSE m \in prices : \A x \in prices : m >= x
              dist == IF top THEN p1 - nk ELSE nk - p1
          IN  (Len0(bars) >= 50 /\ t \in DOMAIN df
                  /\ Abs(p1 - p2) * 100 <= 2 * p1) =>
                 IF prices = {}
                 THEN df[t][confCol] = Zero /\ df[t][neckCol] = Zero
                 ELSE /\ df[t][confCol] = DepthConfidence(dist, p1)
                      /\ df[t][neckCol] = Frac(nk, bars[t].close)
    /\ \A r \in DOMAIN df :
          (df[r][confCol] # Zero \/ df[r][neckCol] # Zero) =>
             \E pr \in AdjacentPairs(swingCol) :
                /\ TargetRow(pr[2]) = r
                /\ OppBetween(oppCol, pr[1], pr[2]) # {}

\* C10: neckline rule.  A double top (bottom) is written only for an
\* adjacent pair with a swing of the other type strictly between; its
\* neckline is the lowest such low (highest such high), the neckline column
\* holds it (over the row's close), and the confidence is min(1, depth * 10)
\* with depth = (peak1 - neckline) / peak1 (or (neckline - bottom1) / bottom1).
C10_NecklineRule ==
    /\ NecklineRule("swing_high", "swing_low",
                    "double_top", "double_top_neckline", TRUE)
    /\ NecklineRule("swing_low", "swing_high",
                    "double_bottom", "double_bottom_neckline", FALSE)

\* a written double top whose two peaks have two swing lows of different
\* price between them, the later one the lower
C10_Witness ==
    /\ Len0(bars) >= 100
    /\ \E pr \in AdjacentPairs("swing_high") :
          LET between == OppBetween("swing_low", pr[1], pr[2])
          IN  /\ TargetRow(pr[2]) \in DOMAIN df
              /\ RGt(df[TargetRow(pr[2])].double_top, Zero)
              /\ \E q1 \in between, q2 \in between :
                    q1 < q2 /\ df[q2].swing_low < df[q1].swing_low

\* the triples of rows, consecutive among the last 100 rows' swings of col
AdjacentTriples(col) ==
    {tr \in SwingRows(col) \X SwingRows(col) \X SwingRows(col) :
        /\ <<tr[1], tr[2]>> \in AdjacentPairs(col)
        /\ <<tr[2], tr[3]>> \in AdjacentPairs(col)}

\* the lowest (top) or highest (~top) price among the swings at rows qs
ExtremePrice(col, qs, top) ==
    LET prices == {df[q][col] : q \in qs}
    IN  IF top THEN CHOOSE m \in prices : \A x \in prices : m <= x
        ELSE CHOOSE m \in prices : \A x \in prices : m >= x

\* the triple of swing highs is a head and shoulders of confidence conf
IsHeadShoulders(tr, conf) ==
    LET ls == df[tr[1]].swing_high
        head == df[tr[2]].swing_high
        rs == df[tr[3]].swing_high
        left == OppBetween("swing_low", tr[1], tr[2])
        right == OppBetween("swing_low", tr[2], tr[3])
    IN  /\ head > ls /\ head > rs
        /\ Abs(ls - rs) * 100 <= 2 * ls
        /\ left # {} /\ right # {}
        /\ LET l == ExtremePrice("swing_low", left, TRUE)
               r == ExtremePrice("swing_low", right, TRUE)
           IN  conf = (IF 5 * (2 * head - l - r) >= head THEN One
                       ELSE Frac(5 * (2 * head - l - r), head))

\* C11: head-and-shoulders soundness.  Whenever head_shoulders is nonzero at
\* a row there are three consecutive swing highs in the last 100 rows, the
\* middle one strictly higher than both others, the outer two no more than
\* 2% (of the left one) apart, with a swing low strictly between each
\* consecutive pair, and the value is min(1, 10 * (head - average of the
\* lowest low on each side) / head).
C11_HeadShouldersSound ==
    \A r \in DOMAIN df :
        df[r].head_shoulders # Zero =>
            \E tr \in AdjacentTriples("swing_high") :
                IsHeadShoulders(tr, df[r].head_shoulders)

\* a head and shoulders has been written, with a confidence below 1
C11_Witness ==
    \E r \in DOMAIN df :
        /\ RGt(df[r].head_shoulders, Zero)
        /\ RLt(df[r].head_shoulders, One)
        /\ legs > 0

\* the triple of swing lows is an inverse head and shoulders
IsInverseShape(tr) ==
    LET ls == df[tr[1]].swing_low
        head == df[tr[2]].swing_low
        rs == df[tr[3]].swing_low
    IN  /\ head < ls /\ head < rs
        /\ Abs(ls - rs) * 100 <= 2 * ls
        /\ OppBetween("swing_high", tr[1], tr[2]) # {}
        /\ OppBetween("swing_high", tr[2], tr[3]) # {}

\* C12: inverse head-and-shoulders completeness.  In a table of at least 100
\* rows, every triple of consecutive swing lows of the last 100 rows with the
\* middle one strictly lower than both others, the outer two no more than 2%
\* apart and a swing high strictly between each consecutive pair gives a
\* nonzero head_shoulders_inv at the right shoulder's row (the row where
\* that swing is reported, or its own bar), however many swing highs the
\* window holds and whether or not a bearish head and shoulders exists.
C12_InverseComplete ==
    Len0(bars) >= 100 =>
        \A tr \in AdjacentTriples("swing_low") :
            IsInverseShape(tr) =>
                \/ df[TargetRow(tr[3])].head_shoulders_inv # Zero
                \/ df[TargetRow(tr[3]) - order].head_shoulders_inv # Zero

\* C13: swing extraction on short input.  A table with fewer than
\* 2 * order + 1 rows has no swing high and no swing low at any row.
C13_ShortNoSwings ==
    Len0(bars) < 2 * order + 1 =>
        \A r \in DOMAIN df : df[r].swing_high = 0 /\ df[r].swing_low = 0

\* every row of the table is zero in every column of cols
AllZero(cols) == \A r \in DOMAIN df : \A c \in cols : df[r][c] = Zero

\* C14: insufficient data.  A table shorter than a matcher's minimum history
\* (double top / bottom 50 rows, head and shoulders 100, wedge and triangle
\* lookback + 10, flag pole + flag + 10) has every output column of that
\* matcher zero at every row.
C14_ShortInputZero ==
    LET n == Len0(bars)
    IN  /\ n < 50 => AllZero({"double_top", "double_top_neckline",
                              "double_bottom", "double_bottom_neckline"})
        /\ n < 100 => AllZero({"head_shoulders", "head_shoulders_inv"})
        /\ n < pattern_lookback + 10 =>
              AllZero({"rising_wedge", "falling_wedge", "ascending_triangle",
                       "descending_triangle", "symmetrical_triangle"})
        /\ n < pole_lookback + flag_lookback + 10 =>
              AllZero({"bull_flag", "bear_flag"})

\* a table with at least one full regression window, still shorter than
\* lookback + 10, in which a row's window is a falling wedge
C14_Witness ==
    /\ Len0(bars) > pattern_lookback
    /\ Len0(bars) < pattern_lookback + 10
    /\ \E i \in pattern_lookback..(Len0(bars) - 1) :
          WedgeRow(WindowTotals(bars), i, pattern_lookback).falling_wedge # Zero

\* every candle of the table is the same single price
FlatSeries ==
    \A r \in DOMAIN bars :
        /\ bars[r].open = bars[0].close /\ bars[r].high = bars[0].close
        /\ bars[r].low = bars[0].close /\ bars[r].close = bars[0].close

\* the 0 / 1 columns of the structure detector
StructureFlags ==
    {"order_block_bull", "order_block_bear", "testing_bull_ob",
     "testing_bear_ob", "wyckoff_spring", "wyckoff_spring_confirmed",
     "wyckoff_upthrust", "wyckoff_upthrust_confirmed", "choch_bull",
     "choch_bear", "liquidity_swept_above", "liquidity_swept_below"}

\* C15: flat series.  On a table whose candles all have open = high = low =
\* close = one constant, every pattern column is zero at every row, every
\* flag of the structure detector is 0 at every row, and the two liquidity
\* counts are zero (or not yet defined) at every row.
C15_FlatSeriesQuiet ==
    FlatSeries =>
        /\ LET pt == add_all_patterns(bars)
           IN  \A r \in DOMAIN pt : \A c \in PatternCols : pt[r][c] = Zero
        /\ \A r \in DOMAIN df :
              /\ \A c \in StructureFlags : df[r][c] = 0
              /\ df[r].liquidity_above_count \in {Zero, <<0, 0>>}
              /\ df[r].liquidity_below_count \in {Zero, <<0, 0>>}

\* C16: order-block marking.  Whenever a down-candle (close < open) at bar t
\* is followed 3 bars later by a close at least 2% above close[t],
\* order_block_bull is 1 at bar t itself; whenever an up-candle at bar t is
\* followed 3 bars later by a close at least 2% below close[t],
\* order_block_bear is 1 at bar t.
C16_OrderBlockAtCandle ==
    \A t \in DOMAIN bars :
        t + 3 \in DOMAIN bars =>
            /\ (/\ bars[t].close < bars[t].open
                /\ (bars[t + 3].close - bars[t].close) * 100 >= 2 * bars[t].close)
               => df[t].order_block_bull = 1
            /\ (/\ bars[t].close > bars[t].open
                /\ (bars[t].close - bars[t + 3].close) * 100 >= 2 * bars[t].close)
               => df[t].order_block_bear = 1

\* the last row up to r at which column flag is 1 (NaN: none)
LastFlag(flag, r) ==
    LET ms == {m \in 0..r : df[m][flag] = 1}
    IN  IF ms = {} THEN NaN ELSE CHOOSE m \in ms : \A x \in ms : x <= m

\* C17: order-block testing.  With m the last row up to r where
\* order_block_bull is 1, the zone in force at row r is the [low, high] range
\* of the candle three rows before m (the marking candle): a row whose low
\* lies in that range has testing_bull_ob = 1, and a row with no order block
\* at or before it has testing_bull_ob = 0.
C17_TestingZone ==
    \A r \in DOMAIN df :
        LET m == LastFlag("order_block_bull", r)
        IN  IF m = NaN THEN df[r].testing_bull_ob = 0
            ELSE (/\ bars[m - 3].low <= bars[r].low
                  /\ bars[r].low <= bars[m - 3].high)
                 => df[r].testing_bull_ob = 1

\* a bar after a bullish order block whose low is back inside the range of
\* the marking candle, flagged as testing, in a table whose earlier bars
\* (before the order block) are not
C17_Witness ==
    \E r \in DOMAIN df :
        LET m == LastFlag("order_block_bull", r)
        IN  /\ m # NaN /\ m < r
            /\ bars[m - 3].low <= bars[r].low
            /\ bars[r].low <= bars[m - 3].high
            /\ bars[r].low > bars[m - 3].low
            /\ df[r].testing_bull_ob = 1
            /\ df[m - 1].testing_bull_ob = 0

\* the lowest low / highest high of the rows lo..hi of the table
LowestLow(lo, hi) ==
    CHOOSE x \in {bars[q].low : q \in lo..hi} :
        \A q \in lo..hi : x <= bars[q].low

HighestHigh(lo, hi) ==
    CHOOSE x \in {bars[q].high : q \in lo..hi} :
        \A q \in lo..hi : x >= bars[q].high

\* volume[r] is below 0.7 times or above 2.5 times the mean of the 20
\* volumes up to row r
AbnormalVolume(r) ==
    /\ r >= 19
    /\ LET S == LET sum[k \in 0..20] ==
                    IF k = 0 THEN 0 ELSE sum[k - 1] + bars[r - k + 1].volume
                IN  sum[20]
       IN  \/ 200 * bars[r].volume < 7 * S
           \/ 40 * bars[r].volume > 5 * S

\* C18: Wyckoff spring and upthrust.  At a row t with 50 rows before it,
\* wyckoff_spring is 1 exactly when low[t] is below the lowest low of the 50
\* rows before t and close[t] is above that low; wyckoff_spring_confirmed
\* is 1 exactly when, in addition, volume[t] is below 0.7 times or above 2.5
\* times the 20-row average volume; the upthrust columns mirror this at the
\* highest high.  With fewer than 50 rows before t all four are 0.
C18_SpringUpthrust ==
    \A t \in DOMAIN df :
        IF t < 50
        THEN /\ df[t].wyckoff_spring = 0 /\ df[t].wyckoff_spring_confirmed = 0
             /\ df[t].wyckoff_upthrust = 0 /\ df[t].wyckoff_upthrust_confirmed = 0
        ELSE LET range_low == LowestLow(t - 50, t - 1)
                 range_high == HighestHigh(t - 50, t - 1)
                 spring == bars[t].low < range_low /\ bars[t].close > range_low
                 upthrust == bars[t].high > range_high
                                /\ bars[t].close < range_high
             IN  /\ df[t].wyckoff_spring = 1 <=> spring
                 /\ df[t].wyckoff_spring_confirmed = 1
                        <=> (spring /\ AbnormalVolume(t))
                 /\ df[t].wyckoff_upthrust = 1 <=> upthrust
                 /\ df[t].wyckoff_upthrust_confirmed = 1
                        <=> (upthrust /\ AbnormalVolume(t))
                 /\ \A c \in {"wyckoff_spring", "wyckoff_spring_confirmed",
                              "wyckoff_upthrust", "wyckoff_upthrust_confirmed"} :
                        df[t][c] \in {0, 1}

\* a table that holds a spring without volume confirmation, a later spring
\* confirmed by low volume and a spring confirmed by very high volume
C18_Witness ==
    \E t1 \in DOMAIN df, t2 \in DOMAIN df, t3 \in DOMAIN df :
        /\ t1 < t2 /\ t2 < t3
        /\ df[t1].wyckoff_spring = 1 /\ df[t1].wyckoff_spring_confirmed = 0
        /\ df[t2].wyckoff_spring_confirmed = 1
        /\ bars[t2].volume < 100
        /\ df[t3].wyckoff_spring_confirmed = 1
        /\ bars[t3].volume > 100

\* the trend read at row r >= 29: the extremes of the 20 rows up to r
\* against those of the 20 rows up to r - 10
LowerLowLowerHigh(r) ==
    /\ LowestLow(r - 19, r) < LowestLow(r - 29, r - 10)
    /\ HighestHigh(r - 19, r) < HighestHigh(r - 29, r - 10)

HigherHighHigherLow(r) ==
    /\ HighestHigh(r - 19, r) > HighestHigh(r - 29, r - 10)
    /\ LowestLow(r - 19, r) > LowestLow(r - 29, r - 10)

\* C19: change of character.  choch_bull is 1 at row t only if the trend at
\* row t - 1 is a downtrend (lower low and lower high than the swings 10
\* rows, half the lookback, earlier) and close[t] is above the prior swing
\* high (the highest high of the 20 rows up to t - 10); choch_bear is 1
\* only if the trend at t - 1 is an uptrend and close[t] is below the prior
\* swing low.  Neither fires on a neutral or same-direction trend.
C19_ChochCounterTrend ==
    \A t \in DOMAIN df :
        /\ df[t].choch_bull = 1 =>
              /\ t >= 30
              /\ LowerLowLowerHigh(t - 1)
              /\ bars[t].close > HighestHigh(t - 29, t - 10)
        /\ df[t].choch_bear = 1 =>
              /\ t >= 30
              /\ HigherHighHigherLow(t - 1)
              /\ bars[t].close < LowestLow(t - 29, t - 10)
        /\ df[t].choch_bull \in {0, 1} /\ df[t].choch_bear \in {0, 1}

\* a bullish change of character has fired, and in the same table a close
\* above the prior swing high that did not fire because the trend before it
\* was no downtrend
C19_Witness ==
    /\ \E t \in DOMAIN df : df[t].choch_bull = 1
    /\ \E t \in DOMAIN df :
          /\ t >= 30
          /\ bars[t].close > HighestHigh(t - 29, t - 10)
          /\ ~ LowerLowLowerHigh(t - 1)
          /\ df[t].choch_bull = 0

RECURSIVE SlopeSign(_, _, _, _)
\* the sum over k in lo..hi of (2k - 49) * bars[first + k][col]: for the 50
\* rows first .. first + 49 it is the least-squares slope of the column
\* against 0..49, times a positive factor
SlopeSign(col, first, lo, hi) ==
    IF lo = hi THEN (2 * lo - 49) * bars[first + lo][col]
    ELSE LET mid == (lo + hi) \div 2
         IN  SlopeSign(col, first, lo, mid) + SlopeSign(col, first, mid + 1, hi)

\* min(1, |a| / |b|)
CappedRatio(a, b) == IF Abs(a) >= Abs(b) THEN One ELSE Frac(Abs(a), Abs(b))

\* C20: wedge classification.  In a table of at least lookback + 10 rows,
\* at every row i >= lookback (50), with the least-squares slopes of high
\* and low taken over the rows i - 50 .. i - 1: rising_wedge is nonzero
\* exactly when both slopes are positive and the low slope is the greater,
\* falling_wedge is nonzero exactly when both are negative and the high
\* slope is the more negative, and the value is min(1, |low slope - high
\* slope| / |high slope|) for a rising wedge, min(1, |low slope - high
\* slope| / |low slope|) for a falling one.
C20_WedgeClassification ==
    Len0(bars) >= 60 =>
        \A i \in DOMAIN df :
            i >= 50 =>
                LET h == SlopeSign("high", i - 50, 0, 49)
                    l == SlopeSign("low", i - 50, 0, 49)
                IN  /\ df[i].rising_wedge =
                          (IF h > 0 /\ l > 0 /\ l > h
                           THEN CappedRatio(l - h, h) ELSE Zero)
                    /\ df[i].falling_wedge =
                          (IF h < 0 /\ l < 0 /\ h < l
                           THEN CappedRatio(l - h, l) ELSE Zero)
                    /\ (h > 0 /\ l > 0 /\ l > h) => df[i].rising_wedge # Zero
                    /\ (h < 0 /\ l < 0 /\ h < l) => df[i].falling_wedge # Zero

\* after candles have arrived, the last row holds a rising wedge of
\* confidence below 1 that differs from the value of an earlier row
C20_Witness ==
    /\ legs > 0
    /\ LET i == Len0(bars) - 1
       IN  /\ RGt(df[i].rising_wedge, Zero)
           /\ RLt(df[i].rising_wedge, One)
           /\ \E j \in DOMAIN df : j < i /\ df[j].rising_wedge # df[i].rising_wedge

-----------------------------------------------------------------------------
\* C28: with the default lookbacks (range_lookback = liquidity_lookback = 50)
\* the Wyckoff detector and the liquidity-sweep detector coincide: at every
\* bar wyckoff_spring = liquidity_swept_below and wyckoff_upthrust =
\* liquidity_swept_above.
C28_WyckoffIsSweep ==
    /\ range_lookback = liquidity_lookback
    /\ \A r \in DOMAIN df :
          /\ df[r].wyckoff_spring = df[r].liquidity_swept_below
          /\ df[r].wyckoff_upthrust = df[r].liquidity_swept_above

\* a table with a spring that is a sweep below, an upthrust that is a sweep
\* above, and a bar where neither fires
C28_Witness ==
    /\ \E r \in DOMAIN df : df[r].wyckoff_spring = 0 /\ df[r].wyckoff_upthrust = 0
    /\ \E r \in DOMAIN df :
          df[r].wyckoff_spring = 1 /\ df[r].liquidity_swept_below = 1
    /\ \E r \in DOMAIN df :
          df[r].wyckoff_upthrust = 1 /\ df[r].liquidity_swept_above = 1

-----------------------------------------------------------------------------
\* C30: trend and change-of-character exclusivity.  At every bar the
\* uptrend and downtrend predicates of _calc_choch are never both true, so
\* trend_state is exactly one of -1, 0, 1 (1 on an uptrend, -1 on a
\* downtrend, 0 otherwise), and choch_bull and choch_bear are never both 1
\* at the same bar.
C30_TrendExclusive ==
    \A r \in DOMAIN df :
        LET up == r >= 29 /\ HigherHighHigherLow(r)
            down == r >= 29 /\ LowerLowLowerHigh(r)
        IN  /\ ~ (up /\ down)
            /\ df[r].trend_state \in {-1, 0, 1}
            /\ df[r].trend_state = 1 <=> up
            /\ df[r].trend_state = -1 <=> down
            /\ ~ (df[r].choch_bull = 1 /\ df[r].choch_bear = 1)

\* a table with a downtrend row, a later row whose windows are full and
\* that shows no trend, and a bullish change of character
C30_Witness ==
    /\ \E r \in DOMAIN df : df[r].trend_state = -1
    /\ \E r \in DOMAIN df : r >= 29 /\ df[r].trend_state = 0
    /\ \E r \in DOMAIN df : df[r].choch_bull = 1 /\ df[r].choch_bear = 0

-----------------------------------------------------------------------------
\* the columns written from pairs and triples of swings
SwingPatternCols ==
    {"double_top", "double_top_neckline", "double_bottom",
     "double_bottom_neckline", "head_shoulders", "head_shoulders_inv"}

\* C29: swing-based detections exist only in the recent window.  For a
\* table of n >= 100 rows detect_double_top, detect_double_bottom and
\* detect_head_and_shoulders leave their columns at zero on every row with
\* index < n - 100, and a detection at a row is made from swings recorded
\* in the last 100 rows: an earlier swing of the same kind lies inside the
\* window.
C29_RecentWindowOnly ==
    LET n == Len0(bars)
    IN  n >= 100 =>
          \A r \in DOMAIN df :
              /\ r < n - 100 => \A c \in SwingPatternCols : df[r][c] = Zero
              /\ df[r].double_top # Zero \/ df[r].head_shoulders # Zero =>
                    \E q \in (n - 100)..(r - 1) : df[q].swing_high # 0
              /\ df[r].double_bottom # Zero \/ df[r].head_shoulders_inv # Zero =>
                    \E q \in (n - 100)..(r - 1) : df[q].swing_low # 0

\* a table of more than 100 rows with a swing high and a swing low recorded
\* before the window, and a detection inside it
C29_Witness ==
    LET n == Len0(bars)
    IN  /\ n > 100
        /\ \E r \in DOMAIN df : r < n - 100 /\ df[r].swing_high # 0
        /\ \E r \in DOMAIN df : r < n - 100 /\ df[r].swing_low # 0
        /\ \E r \in DOMAIN df, c \in SwingPatternCols : df[r][c] # Zero

-----------------------------------------------------------------------------
\* the last call sent a request and the fetch failed
FetchFailed(resp) == resp.kind # "none" /\ ~ FetchSucceeds(resp)

\* the neutral answer given at time t
Neutral(t) == [value |-> 50, classification |-> "Neutral", timestamp |-> t]

\* C22: whenever the Fear & Greed fetch fails (connection error, HTTP
\* error, malformed or empty payload) get_fear_greed_index returns the
\* neutral default (value 50, classification 'Neutral') instead of
\* raising, so add_fear_greed_features completes and writes the neutral
\* columns; the failed call leaves the cache unchanged.
C22_NeutralOnFailure ==
    [][requests' = requests + 1 /\ FetchFailed(response') =>
          /\ raised' = "none"
          /\ fg_result' = Neutral(now)
          /\ fg_cache' = fg_cache
          /\ \A r \in DOMAIN frame' :
                /\ DOMAIN frame'[r] =
                      DOMAIN bars[r] \cup {"fear_greed_value", "fear_greed_normalized",
                                           "is_extreme_fear", "is_extreme_greed"}
                /\ frame'[r].fear_greed_value = 50
                /\ frame'[r].fear_greed_normalized = Zero
                /\ frame'[r].is_extreme_fear = 0
                /\ frame'[r].is_extreme_greed = 0]_vars

\* the cache holds an extreme reading that has expired, the new fetch
\* answered with a document whose value is no number, and the call returned
\* the neutral default
C22_Witness ==
    /\ fg_cache.value = 19
    /\ now > fg_cache.timestamp + cache_minutes
    /\ response = [kind |-> "json", body |-> Entry("n/a", "Fear")]
    /\ fg_result = Neutral(now)
    /\ \A r \in DOMAIN frame : frame[r].fear_greed_value = 50

-----------------------------------------------------------------------------
\* C26: ablation restores the original config.  When run_ablation_all
\* returns, after a failed baseline or after normal completion, config.json
\* has the content it had immediately before the call, whatever backup,
\* toggle, enable, disable and restore commands came before, also when a
\* backup file from an earlier run exists.
C26_AblationRestores ==
    [][ablation' \in {"complete", "baseline_failed"} => config_json' = config_json]_vars

-----------------------------------------------------------------------------
\* the loaded flags enable two features that exclude each other
ConflictingFlags ==
    \/ enabled.trend_scanning /\ enabled.regression_labels
    \/ enabled.atr_stoploss /\ enabled.fixed_stoploss

\* C23: configuration conflict.  When the configuration enables two
\* mutually exclusive features (trend_scanning with regression_labels, or
\* atr_stoploss with fixed_stoploss), an error is raised when the flags are
\* loaded and validated, before any feature or label computation starts:
\* once the flags are loaded the run has failed and never reaches the
\* feature or target stage.
C23_ConflictFailsAtLoad ==
    stage # "start" /\ ConflictingFlags =>
        raised # "none" /\ stage \notin {"features", "targets"}

-----------------------------------------------------------------------------
\* the derived columns of a row of the table
DerivedCols(row) == DOMAIN row \ InputCols

\* C21: execution-order independence.  After swing extraction the six
\* pattern matchers may run in any order on the same table: each writes
\* columns of its own, and after summarize_patterns every output column
\* has at every bar the value add_all_patterns gives.  The structure
\* detectors of add_all_indicators write disjoint feature keys, and their
\* results do not depend on the order of the calls.
C21_OrderIndependent ==
    /\ \A d1, d2 \in DOMAIN FeatureKeys :
          d1 # d2 => FeatureKeys[d1] \cap FeatureKeys[d2] = {}
    /\ \A d \in Detectors : DOMAIN DetectorRows(d, bars)[0] \subseteq FeatureKeys[d]
    /\ "find_swing_points" \in ran =>
          \A m1, m2 \in Matchers :
              m1 # m2 =>
                  DOMAIN MatcherRows(m1, frame)[0]
                      \cap DOMAIN MatcherRows(m2, frame)[0] = {}
    /\ "find_swing_points" \in ran =>
          LET canon == add_all_patterns(bars)
          IN  \A r \in DOMAIN frame :
                  /\ DerivedCols(frame[r]) \subseteq DOMAIN canon[r]
                  /\ \A c \in DerivedCols(frame[r]) : frame[r][c] = canon[r][c]
                  /\ "summarize_patterns" \in ran =>
                        DerivedCols(frame[r]) = DOMAIN canon[r]
    /\ ran \cap Detectors # {} =>
          LET canon == add_all_indicators(bars)
          IN  \A r \in DOMAIN frame :
                  /\ \A c \in DOMAIN features[r] : features[r][c] = canon[r][c]
                  /\ "concat" \in ran =>
                        /\ DerivedCols(frame[r]) = DOMAIN canon[r]
                        /\ \A c \in DOMAIN canon[r] : frame[r][c] = canon[r][c]

\* all six matchers and summarize_patterns have run on a table in which
\* two different matchers made a detection that the scores reflect
C21_Witness ==
    /\ "summarize_patterns" \in ran
    /\ \E r \in DOMAIN frame : frame[r].head_shoulders # Zero
    /\ \E r \in DOMAIN frame : frame[r].double_bottom # Zero
    /\ \E r \in DOMAIN frame : frame[r].pattern_bear_score # Zero
    /\ \E r \in DOMAIN frame : frame[r].pattern_bull_score # Zero

\* the date column is strictly increasing
SortedByTime(table) ==
    \A r \in DOMAIN table : r > 0 => table[r - 1].date < table[r].date

\* C24: malformed bar ordering is rejected.  When the input bars are not
\* in strictly increasing timestamp order, add_all_patterns and
\* add_all_indicators raise at once and write no detections: no derived
\* column and no feature exists once a step has run.
C24_UnsortedRejected ==
    ~ SortedByTime(bars) /\ ran # {} =>
        /\ raised # "none"
        /\ \A r \in DOMAIN frame :
              DerivedCols(frame[r]) = {} /\ DOMAIN features[r] = {}

\* C27: input bars are never mutated.  add_all_patterns and
\* add_all_indicators leave open, high, low, close, volume and the
\* timestamp of every bar as they were; they only add or overwrite their
\* own derived columns, and no row is added or dropped.
C27_InputUntouched ==
    /\ DOMAIN frame = DOMAIN bars
    /\ \A r \in DOMAIN bars :
          /\ InputCols \subseteq DOMAIN frame[r]
          /\ \A c \in InputCols : frame[r][c] = bars[r][c]

\* add_all_indicators has finished on a table with a spring: the features
\* are columns of the table, next to the six input columns
C27_Witness ==
    /\ "concat" \in ran
    /\ \E r \in DOMAIN frame : frame[r].wyckoff_spring = 1
    /\ \A r \in DOMAIN frame : DerivedCols(frame[r]) # {}
=============================================================================
